---- MODULE Spec2Model ----
(***************************************************************************)
(* Agent orchestration runtime of the local MCP bridge:                    *)
(*   Plan -> Execute -> (Workflow | Retry | Discovery | Summary-chain)     *)
(*        -> Writer -> Evaluator -> Output (SSE)                           *)
(* One streaming request (POST /api/mcp/chat/stream) is modelled from the  *)
(* point where input validation has passed and the SSE headers are sent.   *)
(* Texts are abstracted to the features the code tests on them: their      *)
(* length, whether they match the path-issue patterns, and the path-like   *)
(* strings the extractors find in them.                                    *)
(***************************************************************************)
EXTENDS Integers, Sequences, FiniteSets, TLC

\* ------------------------------------------------------------------ bounds
\* Number of catalogue/prompt scenarios the request is drawn from.
MaxScenario == 7

\* ------------------------------------------------------- program constants
CHUNK_SIZE == 48

\* ---------------------------------------------------------------- sentinels
NoTool == "none"            \* null / undefined tool name
NoSync == [parsed |-> FALSE, ready_for_pull |-> FALSE, ready_for_pr |-> FALSE]

\* ------------------------------------------------------------ seq helpers
RECURSIVE Dedupe(_)
Dedupe(s) ==
  IF s = <<>> THEN <<>>
  ELSE LET h == Head(s)
           t == Dedupe(Tail(s))
       IN <<h>> \o SelectSeq(t, LAMBDA x : x # h)

RECURSIVE FlatMap(_, _)
FlatMap(F(_), s) == IF s = <<>> THEN <<>> ELSE F(Head(s)) \o FlatMap(F, Tail(s))

Range(s) == {s[i] : i \in 1..Len(s)}

\* first element of s satisfying P, or NoTool  (Array.prototype.find || null)
RECURSIVE Find(_, _)
Find(P(_), s) ==
  IF s = <<>> THEN NoTool
  ELSE IF P(Head(s)) THEN Head(s) ELSE Find(P, Tail(s))

Repeat(x, n) == [i \in 1..n |-> x]

\* ------------------------------------------------- the tool host's catalogue
\* Tool descriptors {name, inputSchema:{properties, required}} the host serves.
ToolProps(name) ==
  CASE name = "list_docs"       -> {"paths", "extensions"}
    [] name = "rebuild_summary" -> {"paths", "output_path"}
    [] name = "search"          -> {"query", "paths"}
    [] name = "find_files"      -> {"paths"}
    [] name = "create_pr"       -> {"commit_message"}
    [] OTHER                    -> {}

ToolRequired(name) ==
  CASE name = "rebuild_summary" -> {"paths", "output_path"}
    [] name = "search"          -> {"query"}
    [] name = "find_files"      -> {"paths"}
    [] name = "create_pr"       -> {"commit_message"}
    [] OTHER                    -> {}

\* name.toLowerCase().includes(keyword), for the keywords the code looks for
NameIncludes(name, kw) ==
  CASE name = "list_docs"       -> kw \in {"list", "list_docs"}
    [] name = "rebuild_summary" -> kw \in {"rebuild_summary", "summary", "summar", "rebuild"}
    [] name = "search"          -> kw \in {"search"}
    [] name = "find_files"      -> kw \in {"find"}
    [] name = "create_pr"       -> kw \in {"create_pr"}
    [] OTHER                    -> FALSE

\* ------------------------------------------------------------------ prompts
\* The user prompts of the end-to-end scenarios, by the features the code
\* reads from them.
QSummary     == "q_summary"          \* "오늘 노트 요약해줘"
QSummaryPath == "q_summary_path"     \* "notes/a.md 요약해줘"
QSearch      == "q_search"           \* "React 관련 내용 찾아줘"
QPullRequest == "q_pr"               \* "PR 생성해줘"

\* `${routedPrompt} (.md only)`
MdOnly(q) ==
  CASE q = QSummary     -> "q_summary (.md only)"
    [] q = QSummaryPath -> "q_summary_path (.md only)"
    [] q = QSearch      -> "q_search (.md only)"
    [] q = QPullRequest -> "q_pr (.md only)"
    [] OTHER            -> q

hasSummaryIntent(q) ==
  q \in {QSummary, QSummaryPath, "q_summary (.md only)", "q_summary_path (.md only)"}

hasGitHubPRIntent(q) == q \in {QPullRequest, "q_pr (.md only)"}

\* chooseBestTool's keyword rules on the prompt
PromptHasSummaryKey(q) == hasSummaryIntent(q)
PromptHasSearchKey(q)  == q \in {QSearch, "q_search (.md only)"}

\* ------------------------------------------------------ path normalisation
IsBlank(s) == s \in {"", " "}

\* normalizePathInput on a string: the path-like substrings the regular
\* expression extracts, else the tokens of split(/[;,\\n]/); a single token
\* with a space or without a path hint is rejected.
normalizePathString(s) ==
  CASE s = "a.md"        -> <<"a.md">>
    [] s = "notes/"      -> <<"notes/">>
    [] s = "notes/a.md"  -> <<"notes/a.md">>
    [] s = QSummaryPath  -> <<"notes/a.md">>
    [] s = "q_summary_path (.md only)" -> <<"notes/a.md">>
    \* the class [;,\\n] splits on the letter n of "only": two tokens survive
    [] s = "q_summary (.md only)" -> <<"q_summary (.md o", "ly)">>
    [] s = "q_search (.md only)"  -> <<"q_search (.md o", "ly)">>
    [] s = "q_pr (.md only)"      -> <<"q_pr (.md o", "ly)">>
    [] OTHER             -> <<>>

\* normalizePathInput on an array: trim, drop empties, deduplicate
normalizePathArray(a) == Dedupe(SelectSeq(a, LAMBDA x : ~IsBlank(x)))

\* ------------------------------------- path normalisation, character by character
\* A string is a sequence of one-character strings; an input of
\* normalizePathInput is a string or an array of strings.
Str(chars) == [kind |-> "string", chars |-> chars, items |-> <<>>]
Arr(items) == [kind |-> "array", chars |-> <<>>, items |-> items]

WhitespaceChars == {" ", "\t", "\n"}                                    \* \s
AlnumChars == {"a", "b", "c", "d", "e", "m", "n", "o", "s", "t", "1"}   \* [a-zA-Z0-9]
WordChars == AlnumChars \cup {"_"}                                      \* \w
PathChars == WordChars \cup {".", "-"}                                  \* [a-zA-Z0-9._-]
SplitChars == {";", ",", "\\", "n"}                                     \* [;,\\n]

MaxOf(S) == CHOOSE x \in S : \A y \in S : y <= x
MinOf(S) == CHOOSE x \in S : \A y \in S : x <= y

\* String.prototype.trim
Trim(s) ==
  LET keep == {i \in 1..Len(s) : s[i] \notin WhitespaceChars}
  IN IF keep = {} THEN <<>> ELSE SubSeq(s, MinOf(keep), MaxOf(keep))

\* the end of the longest run of characters of C that starts at i (i - 1: none)
RunEnd(s, i, C) == MaxOf({j \in (i - 1)..Len(s) : \A k \in i..j : s[k] \in C})

\* the end of the longest run of non-whitespace characters that starts at i
NonSpaceEnd(s, i) ==
  MaxOf({j \in (i - 1)..Len(s) : \A k \in i..j : s[k] \notin WhitespaceChars})

\* \b in front of s[i]
WordBoundary(s, i) ==
  (i > 1 /\ s[i - 1] \in WordChars) # (i <= Len(s) /\ s[i] \in WordChars)

\* the four alternatives of the extraction expression, tried at position i:
\* the end of the match, or 0
\*   [./][^\s]+\.[a-zA-Z0-9]+
MatchDotted(s, i) ==
  IF s[i] \in {".", "/"}
    THEN LET e == NonSpaceEnd(s, i + 1)
             dots == {j \in (i + 2)..(e - 1) : s[j] = "." /\ s[j + 1] \in AlnumChars}
         IN IF dots = {} THEN 0 ELSE RunEnd(s, MaxOf(dots) + 1, AlnumChars)
    ELSE 0
\*   [a-zA-Z0-9._-]+\/[a-zA-Z0-9._-]+
MatchSlashed(s, i) ==
  LET e == RunEnd(s, i, PathChars)
  IN IF e >= i /\ e < Len(s) /\ s[e + 1] = "/" /\ RunEnd(s, e + 2, PathChars) >= e + 2
       THEN RunEnd(s, e + 2, PathChars) ELSE 0
\*   [a-zA-Z0-9._-]+\.md
MatchMarkdown(s, i) ==
  LET ends == {j \in (i + 1)..(Len(s) - 2) :
                 /\ s[j] = "." /\ s[j + 1] = "m" /\ s[j + 2] = "d"
                 /\ \A k \in i..(j - 1) : s[k] \in PathChars}
  IN IF ends = {} THEN 0 ELSE MaxOf(ends) + 2
\*   \b\w+\/
MatchDirectory(s, i) ==
  LET e == RunEnd(s, i, WordChars)
  IN IF e >= i /\ WordBoundary(s, i) /\ e < Len(s) /\ s[e + 1] = "/" THEN e + 1 ELSE 0

MatchAt(s, i) ==
  IF MatchDotted(s, i) > 0 THEN MatchDotted(s, i)
  ELSE IF MatchSlashed(s, i) > 0 THEN MatchSlashed(s, i)
  ELSE IF MatchMarkdown(s, i) > 0 THEN MatchMarkdown(s, i)
  ELSE MatchDirectory(s, i)

\* trimmed.match(/(...)/g) || []
RECURSIVE ExtractFrom(_, _)
ExtractFrom(s, i) ==
  IF i > Len(s) THEN <<>>
  ELSE IF MatchAt(s, i) > 0
    THEN <<SubSeq(s, i, MatchAt(s, i))>> \o ExtractFrom(s, MatchAt(s, i) + 1)
  ELSE ExtractFrom(s, i + 1)

\* trimmed.split(/[;,\\n]/)
RECURSIVE SplitTokens(_)
SplitTokens(s) ==
  LET cuts == {i \in 1..Len(s) : s[i] \in SplitChars}
  IN IF cuts = {} THEN <<s>>
     ELSE <<SubSeq(s, 1, MinOf(cuts) - 1)>> \o SplitTokens(SubSeq(s, MinOf(cuts) + 1, Len(s)))

hasPathHint(s) ==
  \/ \E i \in 1..Len(s) : s[i] \in {"\\", "/"}
  \/ \E i \in 1..(Len(s) - 1) :
        s[i] = "." /\ \A k \in (i + 1)..Len(s) : s[k] \in AlnumChars
  \/ \E i \in 1..Len(s) :
        /\ WordBoundary(s, i)
        /\ \E j \in i..RunEnd(s, i, PathChars) : j < Len(s) /\ s[j + 1] = "/"
  \/ \E i \in 1..Len(s) :
        LET e == RunEnd(s, i, WordChars \cup {"-"})
        IN /\ WordBoundary(s, i)
           /\ \E j \in i..e : j + 1 < Len(s) /\ s[j + 1] = "." /\ s[j + 2] \in AlnumChars

normalizePathInput(input) ==
  IF input.kind = "array"
    THEN Dedupe(SelectSeq([i \in 1..Len(input.items) |-> Trim(input.items[i])],
                          LAMBDA x : x # <<>>))
    ELSE LET trimmed == Trim(input.chars)
             extracted == ExtractFrom(trimmed, 1)
             tokens == SplitTokens(trimmed)
             splitByTokens == SelectSeq([i \in 1..Len(tokens) |-> Trim(tokens[i])],
                                        LAMBDA x : x # <<>>)
             values == IF extracted # <<>> THEN extracted
                       ELSE IF splitByTokens # <<>> THEN splitByTokens
                       ELSE <<input.chars>>
             normalized == SelectSeq(values, LAMBDA v : Trim(v) # <<>>)
         IN IF trimmed = <<>> THEN <<>>
            ELSE IF /\ extracted = <<>>
                    /\ Len(normalized) = 1
                    /\ \/ \E k \in 1..Len(normalized[1]) : normalized[1][k] = " "
                       \/ ~hasPathHint(trimmed)
              THEN <<>>
            ELSE Dedupe(SelectSeq(normalized, LAMBDA v : v # <<>>))


\* normalizeArrayArgument(input): arrays only reach it in this model (a
\* missing key is carried as the empty array, for which it returns [])
normalizeArrayArgument(input) == normalizePathArray(input)

IsMd(p) == p \in {"a.md", "notes/a.md"}

\* ---------------------------------------------------------------- arguments
\* Tool arguments, by the keys the path policy reads: whether `paths` is a
\* key of the object, its value, whether `output_path` is set, and the value
\* of `extensions` (empty: the key is absent).
NoArgs == [hasPaths |-> FALSE, paths |-> <<>>, hasOutput |-> FALSE, extensions |-> <<>>]
PathArgs(ps) == [hasPaths |-> TRUE, paths |-> ps, hasOutput |-> FALSE, extensions |-> <<>>]

SchemaHas(tool, key) == key \in ToolProps(tool) \/ key \in ToolRequired(tool)

sanitizeToolArgumentsWith(tool, seed, a, defaults) ==
  IF tool = NoTool THEN a
  ELSE
    LET providedPaths == normalizeArrayArgument(a.paths)
        fallbackPaths == normalizePathString(seed)
        paths == IF providedPaths # <<>> THEN providedPaths
                 ELSE IF fallbackPaths # <<>> THEN fallbackPaths
                 ELSE defaults
    IN [hasPaths  |-> a.hasPaths \/ SchemaHas(tool, "paths"),
        paths     |-> IF SchemaHas(tool, "paths") THEN paths ELSE a.paths,
        hasOutput |-> a.hasOutput \/ SchemaHas(tool, "output_path"),
        extensions |-> IF "extensions" \in ToolProps(tool)
                         THEN normalizeArrayArgument(a.extensions) ELSE a.extensions]

buildToolArguments(tool, seed) ==
  IF tool = NoTool THEN NoArgs
  ELSE IF \/ NameIncludes(tool, "rebuild_summary")
          \/ {"paths", "output_path"} \subseteq ToolRequired(tool)
          \/ "paths" \in ToolProps(tool)
       THEN [hasPaths  |-> TRUE,
             paths     |-> normalizePathString(seed),
             hasOutput |-> "output_path" \in ToolProps(tool) \/ "output_path" \in ToolRequired(tool),
             extensions |-> <<>>]
       ELSE NoArgs

\* ------------------------------------------------------------ tool selection
findToolByName(tools, name) ==
  IF name = NoTool THEN NoTool ELSE Find(LAMBDA t : t = name, tools)

chooseBestTool(tools, prompt) ==
  LET first == IF tools = <<>> THEN NoTool ELSE Head(tools)
      bySummary == Find(LAMBDA t : \E n \in {"summary", "summar", "rebuild", "rebuild_summary"} :
                                      NameIncludes(t, n), tools)
      bySearch  == Find(LAMBDA t : \E n \in {"search", "query", "find", "lookup"} :
                                      NameIncludes(t, n), tools)
  IN IF PromptHasSummaryKey(prompt) /\ (IF bySummary # NoTool THEN bySummary ELSE first) # NoTool
       THEN (IF bySummary # NoTool THEN bySummary ELSE first)
     ELSE IF PromptHasSearchKey(prompt) /\ (IF bySearch # NoTool THEN bySearch ELSE first) # NoTool
       THEN (IF bySearch # NoTool THEN bySearch ELSE first)
     ELSE first

isSearchLikeTool(name) ==
  \E kw \in {"search", "query", "find", "lookup"} : NameIncludes(name, kw)

pickDiscoveryTool(tools, requested) ==
  LET direct == findToolByName(tools, requested)
  IN IF direct # NoTool THEN direct
     ELSE Find(LAMBDA t : \E h \in {"discover", "search", "scan", "list", "find", "index"} :
                             NameIncludes(t, h), tools)

hintPriority == <<"search", "scan", "find", "discover", "list", "index">>

RECURSIVE FallbackByHint(_, _, _)
FallbackByHint(tools, selected, hints) ==
  IF hints = <<>> THEN NoTool
  ELSE LET found == Find(LAMBDA t : /\ t # selected
                                    /\ "paths" \notin ToolRequired(t)
                                    /\ NameIncludes(t, Head(hints)), tools)
       IN IF found # NoTool THEN found ELSE FallbackByHint(tools, selected, Tail(hints))

pickFallbackDiscoveryTool(tools, selected) ==
  LET byHint == FallbackByHint(tools, selected, hintPriority)
      anyNoPathRequired == Find(LAMBDA t : "paths" \notin ToolRequired(t), tools)
  IN IF byHint # NoTool THEN byHint
     ELSE IF anyNoPathRequired # NoTool THEN anyNoPathRequired
     ELSE Find(LAMBDA t : t # selected, tools)

summaryCandidates == <<"rebuild_summary", "summary", "summarize", "rebuild">>

RECURSIVE FindExact(_, _)
FindExact(tools, names) ==
  IF names = <<>> THEN NoTool
  ELSE IF findToolByName(tools, Head(names)) # NoTool THEN Head(names)
  ELSE FindExact(tools, Tail(names))

findSummaryTool(tools) ==
  IF FindExact(tools, summaryCandidates) # NoTool THEN FindExact(tools, summaryCandidates)
  ELSE Find(LAMBDA t : \E n \in Range(summaryCandidates) : NameIncludes(t, n), tools)

\* ------------------------------------------------------- tool-call results
\* A normalised tools/call result {status, parsed, raw}, by what the agent
\* reads from it: ok = status < 400 and no parsed.error; the path-like
\* strings of structuredContent / content[].text; structuredContent.hits;
\* and, for a structuredContent object, its ready_for_* fields.
Structured(pull, pr) == [parsed |-> TRUE, ready_for_pull |-> pull, ready_for_pr |-> pr]

ErrHttp     == [ok |-> FALSE, status |-> 500, pathIssue |-> FALSE, paths |-> <<>>,
                hits |-> "none", sync |-> NoSync]
\* JSON-RPC error object "invalid paths" carried by an HTTP 200 reply
ErrRpcPath  == [ok |-> FALSE, status |-> 200, pathIssue |-> TRUE, paths |-> <<>>,
                hits |-> "none", sync |-> NoSync]
OkText      == [ok |-> TRUE, status |-> 200, pathIssue |-> FALSE, paths |-> <<>>,
                hits |-> "none", sync |-> NoSync]
\* content text such as "no valid files"
OkTextPath  == [ok |-> TRUE, status |-> 200, pathIssue |-> TRUE, paths |-> <<>>,
                hits |-> "none", sync |-> NoSync]
OkPaths(ps) == [ok |-> TRUE, status |-> 200, pathIssue |-> FALSE, paths |-> ps,
                hits |-> "none", sync |-> Structured(FALSE, FALSE)]
OkHitsEmpty == [ok |-> TRUE, status |-> 200, pathIssue |-> FALSE, paths |-> <<>>,
                hits |-> "empty", sync |-> Structured(FALSE, FALSE)]
OkHits(ps)  == [ok |-> TRUE, status |-> 200, pathIssue |-> FALSE, paths |-> ps,
                hits |-> "some", sync |-> Structured(FALSE, FALSE)]
OkSync(pull, pr) == [ok |-> TRUE, status |-> 200, pathIssue |-> FALSE, paths |-> <<>>,
                hits |-> "none", sync |-> Structured(pull, pr)]
\* a structuredContent object without ready_for_* fields, such as {pulled: true}
OkStructured == OkSync(FALSE, FALSE)

HostResults(tool) ==
  {ErrHttp, ErrRpcPath} \cup
  CASE tool = "list_docs"       -> {OkPaths(<<"a.md">>), OkPaths(<<"notes/">>), OkText}
    [] tool = "rebuild_summary" -> {OkText, OkTextPath, OkPaths(<<"a.md">>)}
    [] tool = "search"          -> {OkHitsEmpty, OkHits(<<"a.md">>)}
    [] tool = "find_files"      -> {OkPaths(<<"a.md">>), OkText}
    [] tool = "sync_status"     -> {OkSync(pull, pr) : pull \in BOOLEAN, pr \in BOOLEAN}
    [] tool = "pull_changes"    -> {OkText, OkStructured, OkSync(FALSE, TRUE)}
    [] OTHER                    -> {OkText, OkStructured}

\* parseDiscoveryResultPaths / collectPathsFromToolResult: every path-like
\* string of the result, each passed through normalizePathInput, deduplicated
parseDiscoveryResultPaths(r) == Dedupe(FlatMap(normalizePathString, r.paths))
collectPathsFromToolResult(r) == Dedupe(FlatMap(normalizePathString, r.paths))

\* ------------------------------------------------------------ configuration
\* One request: the catalogue the tool host serves, the user prompt,
\* LOCAL_MCP_DEFAULT_PATHS (split, trimmed, empties dropped), and how the host
\* serves its catalogue: by manifest and tools/list, by tools/list only (no
\* manifest), or by manifest only (its tools/list fails).
Scenarios ==
  << [tools |-> <<"list_docs", "rebuild_summary">>, prompt |-> QSummary,
      defaultPaths |-> <<"notes/">>,
      host |-> "manifest+list"],
     [tools |-> <<"search", "list_docs">>, prompt |-> QSearch,
      defaultPaths |-> <<"notes/">>,
      host |-> "list_only"],
     [tools |-> <<"sync_status", "pull_changes", "create_pr">>, prompt |-> QPullRequest,
      defaultPaths |-> <<"notes/">>,
      host |-> "manifest_only"],
     [tools |-> <<"sync_status", "create_pr", "list_docs">>, prompt |-> QPullRequest,
      defaultPaths |-> <<"notes/">>,
      host |-> "manifest+list"],
     [tools |-> <<"find_files", "rebuild_summary">>, prompt |-> QSummary,
      defaultPaths |-> <<>>,
      host |-> "list_only"],
     [tools |-> <<"rebuild_summary">>, prompt |-> QSummaryPath,
      defaultPaths |-> <<"notes/">>,
      host |-> "manifest_only"],
     [tools |-> <<>>, prompt |-> QSummary, defaultPaths |-> <<"notes/">>,
      host |-> "manifest+list"],
     [tools |-> <<"list_docs", "rebuild_summary">>, prompt |-> QSummary,
      defaultPaths |-> <<>>,
      host |-> "list_only"],
     [tools |-> <<"list_docs", "rebuild_summary">>, prompt |-> QSummaryPath,
      defaultPaths |-> <<>>,
      host |-> "manifest_only"],
     [tools |-> <<"search", "list_docs">>, prompt |-> QSummary,
      defaultPaths |-> <<>>,
      host |-> "manifest+list"],
     [tools |-> <<"search", "list_docs", "rebuild_summary">>, prompt |-> QSummary,
      defaultPaths |-> <<"notes/">>,
      host |-> "list_only"] >>

ScenarioSet ==
  {Scenarios[i] : i \in 1..(IF MaxScenario < Len(Scenarios) THEN MaxScenario ELSE Len(Scenarios))}

\* ------------------------------------------------------------------- state
VARIABLES
  cfg,            \* the request's scenario (read-only after Init)
  pc,             \* position of the request task
  plan,           \* runPlanAgent: the route plan
  executionPlan,  \* runPlanAgent: the execution plan (present = FALSE: null)
  manifestTools,  \* manifestContext.tools
  response,       \* runOrchestration: response
  retried,        \* runOrchestration: retried
  workflowState,  \* runOrchestration: workflowState (ran = FALSE: null)
  wf,             \* runWorkflowSteps: loop index, syncPayload, stepResults
  run,            \* callLocalMCP: locals of the MCP-agent run in progress
  pipe,           \* runWriterEvaluationPipeline: firstEval / evaluation
  frames,         \* SSE frames written to res, in order
  calls,          \* tools/call requests sent to the tool host, in order
  execs,          \* execute() invocations of the orchestrator, in order
  llm,            \* number of LLM calls per agent
  ended,          \* res.writableEnded
  upstream,       \* the other requests sent to the tool host, in order
  socket,         \* the client's end of the SSE connection
  fn              \* a function applied on its own: its input and its results

vars == <<cfg, pc, plan, executionPlan, manifestTools, response, retried, workflowState,
          wf, run, pipe, frames, calls, execs, llm, ended, upstream, socket, fn>>

getDefaultPaths == cfg.defaultPaths
getRetryPathCandidates == Dedupe(getDefaultPaths \o <<"notes/">>)
sanitizeToolArguments(tool, seed, a) == sanitizeToolArgumentsWith(tool, seed, a, getDefaultPaths)
routedPrompt == cfg.prompt       \* plan.query || prompt, the planner echoing the prompt

\* ------------------------------------------------------------------- texts
Text(n, pi) == [n |-> n, pathIssue |-> pi]
HostTextLen == CHUNK_SIZE + 1     \* a rendered tool answer: two chunks
ReasonLen   == CHUNK_SIZE         \* the workspace-state reason that is prefixed
\* lengths of the texts the LLM returns: empty, or several chunks
TextLens == {0, 2 * CHUNK_SIZE + 1}

\* ---------------------------------------------------------------- responses
NoQuality == [present |-> FALSE, pass |-> TRUE, score |-> 0]

Resp(action, route, status, tool, hasArgs, args, reqInput, missing, answer, paths, sync) ==
  [action |-> action, route |-> route, mcpStatus |-> status, tool |-> tool,
   hasArguments |-> hasArgs, arguments |-> args,
   requiresInput |-> reqInput, missing |-> missing,
   answer |-> answer, paths |-> paths, sync |-> sync, qualityCheck |-> NoQuality]

NoResponse ==
  Resp("none", "none", 0, NoTool, FALSE, NoArgs, FALSE, "none", Text(0, FALSE), <<>>, NoSync)

\* a proxyResponse that drops the extras
proxyResponseNoExtras(out) == out

\* proxyResponse(result, {route: 'local_mcp', ...}): {...result.data, ...extras, mcpStatus}
proxyResponse(out) == [out EXCEPT !.route = "local_mcp"]

\* {status, data: {action: 'local-mcp', answer}} of a failed bootstrap
BootstrapFailure(status) ==
  Resp("local-mcp", "none", status, NoTool, FALSE, NoArgs, FALSE, "none",
       Text(HostTextLen, FALSE), <<>>, NoSync)

\* createResponseFromCallResult(resultPayload): the rendered answer, with
\* result, tool and arguments
createResponseFromCallResult(r, tool, args) ==
  Resp("local-mcp", "none", 200, tool, TRUE, args, FALSE, "none",
       Text(HostTextLen, r.pathIssue), r.paths, r.sync)

\* the tool_call_failed return: status of the reply, error message as answer
ToolCallFailed(r, tool, args) ==
  Resp("local-mcp", "none", r.status, tool, TRUE, args, FALSE, "none",
       Text(HostTextLen, r.pathIssue), <<>>, NoSync)

\* the paths_missing return
PathsMissing(tool, args) ==
  Resp("local-mcp", "none", 200, tool, TRUE, args, TRUE, "paths",
       Text(HostTextLen, FALSE), <<>>, NoSync)

\* a missing plan reported as a failed tool call
MissingPlanAsFailure ==
  Resp("local-mcp", "local_mcp", 500, NoTool, FALSE, NoArgs, FALSE, "none",
       Text(HostTextLen, FALSE), <<>>, NoSync)

\* runOrchestration's return when the plan agent produced no execution plan
MissingPlanResponse ==
  Resp("local-mcp", "local_mcp", 200, NoTool, FALSE, NoArgs, TRUE, "execution_plan",
       Text(HostTextLen, FALSE), <<>>, NoSync)

ChatResponse(n) ==
  Resp("chat-only", "chat_only", 200, NoTool, FALSE, NoArgs, FALSE, "none",
       Text(n, FALSE), <<>>, NoSync)

\* ------------------------------------------------------------ execution plan
NoDiscovery == [present |-> FALSE, tool |-> NoTool, hasArgs |-> FALSE, args |-> NoArgs,
                expected_paths |-> <<>>]
NoWorkflow == [schema |-> "none", type |-> "none", steps |-> <<>>]

Plan(tool, args, rq, discovery, workflow) ==
  [present |-> TRUE, tool |-> tool, toolArguments |-> args, routedQuery |-> rq,
   discovery |-> discovery, workflow |-> workflow]

NoPlan == [present |-> FALSE, tool |-> NoTool, toolArguments |-> NoArgs, routedQuery |-> "",
           discovery |-> NoDiscovery, workflow |-> NoWorkflow]

WhenSync(field) == [type |-> "sync_field_equals", field |-> field, stepId |-> ""]
WhenStep(id)    == [type |-> "step_executed", field |-> "", stepId |-> id]
Step(id, tool, args, when) == [id |-> id, tool |-> tool, toolArguments |-> args, when |-> when]

buildGitHubPRWorkflowSteps(syncStatusToolName, pullToolName, createPRToolName, createPRArgs) ==
  [schema |-> "workflow.steps.v1",
   type   |-> "github_pr",
   steps  |->
     (IF pullToolName # NoTool
        THEN << Step("pull_if_needed", pullToolName, NoArgs, WhenSync("ready_for_pull")),
                Step("sync_refresh_after_pull", syncStatusToolName, NoArgs,
                     WhenStep("pull_if_needed")) >>
        ELSE <<>>)
     \o << Step("create_pr_if_ready", createPRToolName, createPRArgs,
                WhenSync("ready_for_pr")) >>]

\* parseRoutePlan(planningText) || {route: 'local_mcp', ...}: the route of the
\* plan for each kind of planner output
RouteOutputs == {"chat_only", "local_mcp", "other_route", "unparsable"}
parseRoutePlan(text) ==
  IF text = "unparsable" THEN "null"
  ELSE IF text = "chat_only" THEN "chat_only" ELSE "local_mcp"
RoutePlan(text) ==
  [route |-> IF parseRoutePlan(text) = "null" THEN "local_mcp" ELSE parseRoutePlan(text)]

\* planMCPToolCall: what the tool-selector LLM may answer for a catalogue
SelectorOutputs(tools) ==
  { [tool |-> t, hasPaths |-> TRUE, paths |-> <<".">>, discTool |-> d, expected_paths |-> e] :
      t \in Range(tools), d \in {NoTool} \cup {Head(tools)}, e \in {<<>>, <<"a.md">>} }

\* planExecutionFromManifest: the plan built from a usable selector answer
LlmExecutionPlan(o, query) ==
  LET sanitized == sanitizeToolArguments(o.tool, query,
                     [hasPaths |-> o.hasPaths, paths |-> o.paths, hasOutput |-> FALSE,
                      extensions |-> <<>>])
      args == IF sanitized.paths = <<>> /\ hasSummaryIntent(query)
                THEN [sanitized EXCEPT !.hasPaths = TRUE, !.paths = getDefaultPaths]
                ELSE sanitized
  IN Plan(o.tool, args, query,
          [present |-> TRUE, tool |-> o.discTool, hasArgs |-> TRUE, args |-> NoArgs,
           expected_paths |-> o.expected_paths],
          NoWorkflow)

\* planExecutionFromManifest: the heuristic plan (chooseBestTool)
HeuristicExecutionPlan(tools, query) ==
  LET selectedTool == chooseBestTool(tools, query)
      sanitized == sanitizeToolArguments(selectedTool, query,
                                         buildToolArguments(selectedTool, query))
      args == IF sanitized.paths = <<>> /\ hasSummaryIntent(query)
                THEN [sanitized EXCEPT !.hasPaths = TRUE, !.paths = getDefaultPaths]
                ELSE sanitized
  IN Plan(selectedTool, args, query,
          [present |-> TRUE, tool |-> pickFallbackDiscoveryTool(tools, selectedTool),
           hasArgs |-> TRUE, args |-> NoArgs, expected_paths |-> getRetryPathCandidates],
          NoWorkflow)

\* planExecutionFromManifest: the github_pr workflow plan
GitHubExecutionPlan(tools, query) ==
  LET pullTool == IF findToolByName(tools, "sync_pull") # NoTool THEN "sync_pull"
                  ELSE IF findToolByName(tools, "pull_changes") # NoTool THEN "pull_changes"
                  ELSE findToolByName(tools, "pull")
  IN Plan("sync_status", NoArgs, query, NoDiscovery,
          buildGitHubPRWorkflowSteps("sync_status", pullTool, "create_pr",
            sanitizeToolArguments("create_pr", query, NoArgs)))

WantsGitHubWorkflow(tools, query) ==
  /\ hasGitHubPRIntent(query)
  /\ findToolByName(tools, "sync_status") # NoTool
  /\ findToolByName(tools, "create_pr") # NoTool

\* -------------------------------------------------------------- SSE frames
\* A frame written by writeSSE. A `delta` frame carries its chunk as the
\* slice [start, start + len) of the text; a `final` frame carries the length
\* of response.answer in len.
Frame(event, ok) == [event |-> event, ok |-> ok, start |-> 0, len |-> 0]
Delta(start, len) == [event |-> "delta", ok |-> TRUE, start |-> start, len |-> len]
Final(resp) == [event |-> "final", ok |-> TRUE, start |-> 0, len |-> resp.answer.n]

\* emit(): writeSSE unless res.writableEnded; k a2a frames in a row
Emit(k) == IF ended THEN frames ELSE frames \o Repeat(Frame("a2a", TRUE), k)

\* a streamText whose last chunk is cut one character short
RECURSIVE streamTextFromShort(_, _)
streamTextFromShort(start, n) ==
  IF start >= n THEN <<>>
  ELSE <<Delta(start, IF start + CHUNK_SIZE < n THEN CHUNK_SIZE ELSE n - start - 1)>>
         \o streamTextFromShort(start + CHUNK_SIZE, n)

streamTextShort(n) == streamTextFromShort(0, n)

\* streamText(res, fullText, chunkSize = 48): for (start = 0; start < length;
\* start += chunkSize) write delta {chunk: fullText.slice(start, start + chunkSize)}
RECURSIVE streamTextFrom(_, _)
streamTextFrom(start, n) ==
  IF start >= n THEN <<>>
  ELSE <<Delta(start, IF start + CHUNK_SIZE < n THEN CHUNK_SIZE ELSE n - start)>>
         \o streamTextFrom(start + CHUNK_SIZE, n)

streamText(n) == streamTextFrom(0, n)

\* ---------------------------------------------------------- workflow runner
NoWorkflowState == [ran |-> FALSE, type |-> "none", proceeded |-> FALSE, steps |-> <<>>]
\* lastSyncStatus is history: the payload parsed most recently from the
\* response of a sync_status call
NoWf == [idx |-> 0, syncPayload |-> NoSync, stepResults |-> {}, lastSyncStatus |-> NoSync]

\* parseSyncStatusPayload(response): response.result when it is an object
evaluateGitHubPRReadiness(resp) == resp.sync

\* a runner that takes a recorded step for an executed one
shouldRunWorkflowStepAnyRecorded(when, syncPayload, stepResults) ==
  CASE when.type = "sync_field_equals" ->
         /\ syncPayload.parsed
         /\ IF when.field = "ready_for_pull" THEN syncPayload.ready_for_pull
            ELSE IF when.field = "ready_for_pr" THEN syncPayload.ready_for_pr
            ELSE FALSE
    [] OTHER -> TRUE

shouldRunWorkflowStep(when, syncPayload, stepResults) ==
  CASE when.type = "sync_field_equals" ->
         /\ syncPayload.parsed
         /\ IF when.field = "ready_for_pull" THEN syncPayload.ready_for_pull
            ELSE IF when.field = "ready_for_pr" THEN syncPayload.ready_for_pr
            ELSE FALSE
    [] when.type = "step_executed" -> when.stepId \in stepResults
    [] OTHER -> TRUE

\* step.id.toLowerCase().includes('create_pr')
IdIncludesCreatePr(id) == id = "create_pr_if_ready"

StepPlan(step) == Plan(step.tool, step.toolArguments, routedPrompt, NoDiscovery, NoWorkflow)

\* ------------------------------------------------------------- retry policy
shouldRetryForPathIssue(resp) ==
  \/ resp.requiresInput /\ resp.missing = "paths"
  \/ resp.answer.n > 0 /\ resp.answer.pathIssue

extractMdPathsFromResponse(resp) == Dedupe(SelectSeq(resp.paths, IsMd))

buildListDocsArguments(tool, candidatePaths) ==
  LET normalizedCandidates == Dedupe(SelectSeq(candidatePaths, LAMBDA item : ~IsBlank(item)))
      withPaths == IF SchemaHas(tool, "paths") /\ normalizedCandidates # <<>>
                     THEN PathArgs(normalizedCandidates)
                     ELSE NoArgs
  IN [withPaths EXCEPT !.extensions = IF "extensions" \in ToolProps(tool) THEN <<".md">>
                                      ELSE <<>>]

buildRetryExecutionPlan(ep) ==
  [ep EXCEPT !.toolArguments = [ep.toolArguments EXCEPT !.hasPaths = TRUE,
                                                        !.paths = getRetryPathCandidates],
             !.discovery = [ep.discovery EXCEPT !.present = TRUE,
                                                !.expected_paths = getRetryPathCandidates]]

RetryPlanWithPaths(ep, mdPaths) ==
  [ep EXCEPT !.toolArguments = [ep.toolArguments EXCEPT !.hasPaths = TRUE, !.paths = mdPaths]]

shouldHandoffToSummaryAgent(resp, route) ==
  /\ route = "local_mcp"
  /\ ~resp.requiresInput
  /\ resp.mcpStatus < 400
  /\ resp.tool # NoTool
  /\ \E kw \in {"list_docs", "search", "query", "find", "lookup"} : NameIncludes(resp.tool, kw)

\* ---------------------------------------------------------------- evaluator
DEFAULT_SCORE == 80

\* what the evaluator LLM may return: unparsable text, or a JSON object
\* whose pass / score may be missing
EvalOutputs ==
  { [json |-> FALSE, pass |-> "absent", hasScore |-> FALSE, score |-> 0],
    [json |-> TRUE, pass |-> "true",   hasScore |-> TRUE,  score |-> 150],
    [json |-> TRUE, pass |-> "false",  hasScore |-> TRUE,  score |-> 40],
    [json |-> TRUE, pass |-> "absent", hasScore |-> FALSE, score |-> 0] }

\* runEvaluatorAgent: JSON.parse with the default {pass: true, score: 80}
ParseEvaluation(o) ==
  IF ~o.json THEN [present |-> TRUE, pass |-> TRUE, score |-> DEFAULT_SCORE]
  ELSE [present |-> TRUE,
        pass    |-> o.pass # "false",
        score   |-> IF o.hasScore THEN o.score ELSE DEFAULT_SCORE]

NoPipe == [drafted |-> NoResponse, drafts |-> <<>>, evals |-> <<>>]

\* a writer that returns its draft even when the draft is empty
DraftedVerbatim(resp, n) == [resp EXCEPT !.answer = Text(n, FALSE)]

\* runWriterAgent: answer = drafted || baseResponse.answer || ''
Drafted(resp, n) ==
  [resp EXCEPT !.answer = IF n > 0 THEN Text(n, FALSE) ELSE resp.answer]

\* --------------------------------------------------------- MCP agent locals
NoRun == [kind |-> "none", plan |-> NoPlan, tools |-> <<>>,
          selected |-> NoTool, args |-> NoArgs, callResult |-> OkText,
          other |-> NoTool, otherArgs |-> NoArgs, out |-> NoResponse]

RunQuery(r) == IF r.plan.routedQuery # "" THEN r.plan.routedQuery ELSE routedPrompt

\* a fetch that rejects: no reply at all
Rejected == [ErrHttp EXCEPT !.status = 0]

\* process.env.LOCAL_MCP_TOKEN: a bearer token is configured
LOCAL_MCP_TOKEN == "token"

\* buildMCPHeaders(): the headers of postToMCP and of fetchManifest
buildMCPHeaders ==
  {"Content-Type", "Accept"} \cup (IF LOCAL_MCP_TOKEN # "" THEN {"Authorization"} ELSE {})

\* the headers of the legacy fallback's own fetch
LegacyHeaders == {"Content-Type"}

\* one tools/call request of the log, with what the host answered
Call(req, tool, args, res) ==
  [exec |-> Len(execs), kind |-> run.kind, req |-> req, tool |-> tool, args |-> args,
   pathIssue |-> res.pathIssue, rejected |-> res.status = 0, headers |-> buildMCPHeaders,
   ok |-> res.ok]

\* one other request of the log: initialize, the manifest GET, tools/list or
\* the legacy POST, with the status of the reply (0: the fetch rejected) and,
\* for the legacy POST, the length of the reply's text
Upstream(req, status) ==
  [exec |-> Len(execs), req |-> req, status |-> status, n |-> 0, headers |-> buildMCPHeaders]
LegacyPost(status, n) ==
  [exec |-> Len(execs), req |-> "legacy", status |-> status, n |-> n, headers |-> LegacyHeaders]

\* the statuses of a reply that postToMCP's callers treat as a failure
FailureStatuses == {404, 500}

\* the catalogue the host serves to an MCP-agent run. The run fetches the
\* catalogue again; a host of kind "list_changed" has withdrawn its first
\* tool since the plan agent read the catalogue
ServedTools == IF cfg.host = "list_changed" THEN Tail(cfg.tools) ELSE cfg.tools

\* the manifest GET and the tools/list POST of a host that serves its
\* catalogue: tools = manifestTools, merged with tools/list when both answer
CatalogueRequests ==
  CASE cfg.host = "list_only" ->
         <<Upstream("manifest", 404), Upstream("tools/list", 200)>>
    [] cfg.host = "manifest_only" ->
         <<Upstream("manifest", 200), Upstream("tools/list", 500)>>
    [] OTHER ->
         <<Upstream("manifest", 200), Upstream("tools/list", 200)>>

\* the arguments discoverPathsWithTool sends: the plan's discovery
\* toolArguments when they are an object, else {query: routedQuery}; the
\* callers that pass `tool_arguments` therefore send {query: routedQuery}
DiscoveryArgs(r, tool) == sanitizeToolArguments(tool, RunQuery(r), NoArgs)

\* the discoveryPlan the search retry hands to discoverPathsWithTool
SearchDiscoveryPlan ==
  [tool_arguments |-> [PathArgs(getRetryPathCandidates) EXCEPT !.extensions = <<".md", ".txt">>],
   expected_paths |-> getRetryPathCandidates]

\* discoverPathsWithTool: planArgs is discoveryPlan.toolArguments when that is
\* an object, else {query: routedQuery}
PlanArgs(discoveryPlan) ==
  IF "toolArguments" \in DOMAIN discoveryPlan THEN discoveryPlan.toolArguments ELSE NoArgs

\* no function is applied on its own while a request is handled
NoFn == [op |-> "none", input |-> <<>>, done |-> TRUE, once |-> <<>>, twice |-> <<>>]

Init ==
  /\ cfg \in ScenarioSet
  /\ fn = NoFn
  /\ pc = "plan_route"
  /\ plan = [route |-> "none"]
  /\ executionPlan = NoPlan
  /\ manifestTools = <<>>
  /\ response = NoResponse
  /\ retried = FALSE
  /\ workflowState = NoWorkflowState
  /\ wf = NoWf
  /\ run = NoRun
  /\ pipe = NoPipe
  /\ frames = <<>>
  /\ calls = <<>>
  /\ execs = <<>>
  /\ llm = [plan |-> 0, selector |-> 0, chat |-> 0, summary |-> 0, writer |-> 0, evaluator |-> 0]
  /\ ended = FALSE
  /\ upstream = <<>>
  /\ socket = [open |-> TRUE, framesAtClose |-> 0]

\* execute(): runMCPAgent up to its first await (the initialize POST)
BeginRun(kind, toolPlan, emitsBefore) ==
  /\ run' = [NoRun EXCEPT !.kind = kind, !.plan = toolPlan]
  /\ execs' = Append(execs, [kind |-> kind, tool |-> toolPlan.tool])
  /\ frames' = Emit(emitsBefore + 2)
  /\ pc' = "mcp_initialize"

\* ------------------------------------------------------------ runPlanAgent
\* a plan agent that plans against the tool host on every route
NeedsToolHostAlways(p) == TRUE

\* if (plan.route === 'local_mcp'): only then is the tool host contacted
NeedsToolHost(p) == p.route = "local_mcp"

\* the route-decision LLM call
PlanRoute ==
  /\ pc = "plan_route"
  /\ llm' = [llm EXCEPT !.plan = @ + 1]
  /\ \/ /\ pc' = "catch"                       \* callOpenAI throws
        /\ frames' = Emit(1)
        /\ UNCHANGED plan
     \/ \E text \in RouteOutputs :
          /\ plan' = RoutePlan(text)
          /\ IF NeedsToolHost(plan')
               THEN pc' = "plan_context" /\ frames' = Emit(1)
               ELSE pc' = "exec_chat" /\ frames' = Emit(3)
  /\ UNCHANGED <<cfg, fn, socket, upstream, executionPlan, manifestTools, response, retried, workflowState, wf,
                 run, pipe, calls, execs, ended>>

\* runOrchestration: no execution plan on the local_mcp route
ReturnMissingPlan ==
  /\ response' = MissingPlanResponse
  /\ pc' = "output"

\* planExecutionFromManifest: collectMCPToolContext, then the workflow probe
PlanContext ==
  /\ pc = "plan_context"
  /\ \/ /\ upstream' = upstream \o <<Upstream("initialize", 0)>>       \* fetch rejects
        /\ pc' = "catch"
        /\ UNCHANGED <<manifestTools, executionPlan, response, run, execs, frames>>
     \/ /\ upstream' = upstream \o <<Upstream("initialize", 200), Upstream("manifest", 404),
                                      Upstream("tools/list", 0)>>
        /\ pc' = "catch"
        /\ UNCHANGED <<manifestTools, executionPlan, response, run, execs, frames>>
     \/ /\ \/ \E status \in FailureStatuses :                      \* initialize failed
                upstream' = upstream \o <<Upstream("initialize", status)>>
           \/ upstream' = upstream \o                              \* tools/list failed
                 <<Upstream("initialize", 200), Upstream("manifest", 404),
                   Upstream("tools/list", 500)>>
        /\ manifestTools' = <<>>
        /\ executionPlan' = NoPlan
        /\ frames' = Emit(1)
        /\ ReturnMissingPlan
        /\ UNCHANGED <<run, execs>>
     \/ /\ upstream' = upstream \o <<Upstream("initialize", 200)>> \o CatalogueRequests
        /\ manifestTools' = cfg.tools
        /\ IF cfg.tools = <<>>
             THEN /\ executionPlan' = NoPlan
                  /\ frames' = Emit(1)
                  /\ ReturnMissingPlan
                  /\ UNCHANGED <<run, execs>>
             ELSE IF WantsGitHubWorkflow(cfg.tools, routedPrompt)
               THEN /\ executionPlan' = GitHubExecutionPlan(cfg.tools, routedPrompt)
                    /\ BeginRun("initial", executionPlan', 1)
                    /\ UNCHANGED response
               ELSE /\ pc' = "plan_selector"
                    /\ UNCHANGED <<executionPlan, response, run, execs, frames>>
  /\ UNCHANGED <<cfg, fn, socket, plan, retried, workflowState, wf, pipe, calls, llm, ended>>

\* planMCPToolCall (the tool-selector LLM), else the heuristic best tool
PlanSelector ==
  /\ pc = "plan_selector"
  /\ llm' = [llm EXCEPT !.selector = @ + 1]
  /\ \/ /\ pc' = "catch"
        /\ UNCHANGED <<executionPlan, run, execs, frames>>
     \/ /\ executionPlan' = HeuristicExecutionPlan(manifestTools, routedPrompt)
        /\ BeginRun("initial", executionPlan', 1)
     \/ \E o \in SelectorOutputs(manifestTools) :
          /\ executionPlan' = LlmExecutionPlan(o, routedPrompt)
          /\ BeginRun("initial", executionPlan', 1)
  /\ UNCHANGED <<cfg, fn, socket, upstream, plan, manifestTools, response, retried, workflowState, wf, pipe,
                 calls, ended>>

\* ------------------------------------------------------------ runChatAgent
ExecChat ==
  /\ pc = "exec_chat"
  /\ llm' = [llm EXCEPT !.chat = @ + 1]
  /\ execs' = Append(execs, [kind |-> "chat", tool |-> NoTool])
  /\ \/ /\ pc' = "catch"
        /\ frames' = Emit(1)
        /\ UNCHANGED response
     \/ \E n \in TextLens :
          /\ response' = ChatResponse(n)
          /\ frames' = Emit(2)
          /\ pc' = "writer"
  /\ UNCHANGED <<cfg, fn, socket, upstream, plan, executionPlan, manifestTools, retried, workflowState, wf, run,
                 pipe, calls, ended>>

\* ------------------------------------------------------------ callLocalMCP
Goto(p, r, k) == [pc |-> p, run |-> r, emits |-> k]

Apply(g) ==
  /\ pc' = g.pc
  /\ run' = g.run
  /\ frames' = Emit(g.emits)

needsPath(r) == "paths" \in ToolRequired(r.selected)

normalizeDiscoveryExpectedPaths(input) == Dedupe(FlatMap(normalizePathString, input))

\* the paths_missing guard in front of the primary call
PathsMissingGuard(r, k) ==
  IF needsPath(r) /\ r.args.paths = <<>>
    THEN Goto("mcp_return", [r EXCEPT !.out = PathsMissing(r.selected, r.args)], k + 1)
    ELSE Goto("mcp_primary", r, k)

\* discovery_resolved: the candidate paths, or the default paths, become args.paths
ResolvePaths(r, resolved, k) ==
  IF resolved # <<>>
    THEN PathsMissingGuard(
           [r EXCEPT !.args = [r.args EXCEPT !.hasPaths = TRUE,
                                             !.paths = IF resolved = <<".">> THEN <<>>
                                                       ELSE resolved]], k + 1)
    ELSE PathsMissingGuard(
           [r EXCEPT !.args = [r.args EXCEPT !.hasPaths = TRUE, !.paths = getDefaultPaths]],
           k + 2)

\* the preflight: a tool requiring `paths` whose arguments carry none
Preflight(r, k) ==
  LET hasPathArg == r.args.hasPaths /\ r.args.paths # <<>>
      hasOnlyDirectoryHint == r.args.paths = <<".">>
      discoveryTool ==
        IF pickDiscoveryTool(r.tools, r.plan.discovery.tool) # NoTool
          THEN pickDiscoveryTool(r.tools, r.plan.discovery.tool)
          ELSE pickFallbackDiscoveryTool(r.tools, r.selected)
      expectedPaths == normalizeDiscoveryExpectedPaths(r.plan.discovery.expected_paths)
  IN IF needsPath(r) /\ (~hasPathArg \/ hasOnlyDirectoryHint)
       THEN IF expectedPaths = <<>> /\ discoveryTool # NoTool
              THEN Goto("mcp_discovery", [r EXCEPT !.other = discoveryTool], k + 1)
              ELSE ResolvePaths(r, expectedPaths, k + 1)
       ELSE PathsMissingGuard(r, k)

\* selectedTool, plannedArgs and args once the catalogue is known
SelectTool(r, tools, k) ==
  LET selectedTool == IF r.plan.tool # NoTool THEN findToolByName(tools, r.plan.tool)
                      ELSE chooseBestTool(tools, routedPrompt)
      args == sanitizeToolArguments(selectedTool, RunQuery(r), r.plan.toolArguments)
  IN IF selectedTool = NoTool
       THEN Goto("mcp_return", [r EXCEPT !.tools = tools, !.out = BootstrapFailure(500)], k + 1)
       ELSE Preflight([r EXCEPT !.tools = tools, !.selected = selectedTool, !.args = args],
                      k + 1)

summaryToolOf(r) == IF hasSummaryIntent(RunQuery(r)) THEN findSummaryTool(r.tools) ELSE NoTool

\* the summary chain that follows the primary call (and the search retry)
SummaryChain(r, k) ==
  LET summaryTool == summaryToolOf(r)
      inferredPaths == collectPathsFromToolResult(r.callResult)
      summaryNeedsPath == "paths" \in ToolRequired(summaryTool)
      summaryDiscoveryTool ==
        IF pickDiscoveryTool(r.tools, r.plan.discovery.tool) # NoTool
          THEN pickDiscoveryTool(r.tools, r.plan.discovery.tool)
          ELSE pickFallbackDiscoveryTool(r.tools, summaryTool)
      plain == [r EXCEPT !.out = createResponseFromCallResult(r.callResult, r.selected, r.args)]
  IN IF summaryTool # NoTool /\ r.selected # summaryTool
       THEN IF inferredPaths = <<>> /\ summaryNeedsPath /\ summaryDiscoveryTool # NoTool
              THEN Goto("mcp_summary_discovery", [r EXCEPT !.other = summaryDiscoveryTool], k + 1)
            ELSE IF inferredPaths # <<>>
              THEN Goto("mcp_summary_chain",
                        [r EXCEPT !.otherArgs =
                           sanitizeToolArguments(summaryTool, RunQuery(r),
                             [hasPaths |-> TRUE, paths |-> inferredPaths, hasOutput |-> TRUE,
                              extensions |-> <<>>])],
                        k + 1)
            ELSE Goto("mcp_return", plain, k + 1)
       ELSE Goto("mcp_return", plain, k)

RunUnchanged ==
  UNCHANGED <<cfg, fn, socket, plan, executionPlan, manifestTools, response, retried, workflowState, wf,
              pipe, execs, llm, ended>>

\* an initialize that treats 404 as any other failed status
McpInitializeNoLegacy ==
  /\ pc = "mcp_initialize"
  /\ \/ /\ upstream' = Append(upstream, Upstream("initialize", 0))
        /\ pc' = "catch"
        /\ UNCHANGED <<run, frames>>
     \/ \E status \in FailureStatuses :
          /\ upstream' = Append(upstream, Upstream("initialize", status))
          /\ Apply(Goto("mcp_return", [run EXCEPT !.out = BootstrapFailure(status)], 1))
     \/ /\ upstream' = Append(upstream, Upstream("initialize", 200))
        /\ Apply(Goto("mcp_tools", run, 0))
  /\ UNCHANGED calls
  /\ RunUnchanged

\* an initialize whose failed reply does not stop the run
McpInitializeUnchecked ==
  /\ pc = "mcp_initialize"
  /\ \/ /\ upstream' = Append(upstream, Upstream("initialize", 0))
        /\ pc' = "catch"
        /\ UNCHANGED <<run, frames>>
     \/ /\ upstream' = Append(upstream, Upstream("initialize", 404))
        /\ Apply(Goto("mcp_legacy", run, 1))
     \/ \E status \in {200, 500} :
          /\ upstream' = Append(upstream, Upstream("initialize", status))
          /\ Apply(Goto("mcp_tools", run, 0))
  /\ UNCHANGED calls
  /\ RunUnchanged

\* POST initialize
McpInitialize ==
  /\ pc = "mcp_initialize"
  /\ \/ /\ upstream' = Append(upstream, Upstream("initialize", 0))     \* fetch rejects
        /\ pc' = "catch"
        /\ UNCHANGED <<run, frames>>
     \/ /\ upstream' = Append(upstream, Upstream("initialize", 404))
        /\ Apply(Goto("mcp_legacy", run, 1))
     \/ /\ upstream' = Append(upstream, Upstream("initialize", 500))
        /\ Apply(Goto("mcp_return", [run EXCEPT !.out = BootstrapFailure(500)], 1))
     \/ /\ upstream' = Append(upstream, Upstream("initialize", 200))
        /\ Apply(Goto("mcp_tools", run, 0))
  /\ UNCHANGED calls
  /\ RunUnchanged

\* the length of the text a legacy host replies with: exactly one chunk
LegacyTextLen == CHUNK_SIZE

\* the legacy {prompt, conversation} POST after a 404
McpLegacyPost ==
  /\ pc = "mcp_legacy"
  /\ \/ /\ upstream' = Append(upstream, LegacyPost(0, 0))              \* fetch rejects
        /\ pc' = "catch"
        /\ UNCHANGED <<run, frames>>
     \/ /\ upstream' = Append(upstream, LegacyPost(500, LegacyTextLen))
        /\ Apply(Goto("mcp_return", [run EXCEPT !.out = BootstrapFailure(500)], 1))
     \/ /\ upstream' = Append(upstream, LegacyPost(200, LegacyTextLen))
        /\ Apply(Goto("mcp_return",
                      [run EXCEPT !.out = Resp("local-mcp", "none", 200, NoTool, FALSE, NoArgs,
                                               FALSE, "none", Text(LegacyTextLen, FALSE),
                                               <<>>, NoSync)], 0))
  /\ UNCHANGED calls
  /\ RunUnchanged

\* fetchManifest and tools/list, then tool selection and the preflight decision
McpToolsList ==
  /\ pc = "mcp_tools"
  /\ \/ /\ upstream' = upstream \o <<Upstream("manifest", 404), Upstream("tools/list", 0)>>
        /\ pc' = "catch"
        /\ frames' = Emit(1)
        /\ UNCHANGED run
     \/ /\ upstream' = upstream \o <<Upstream("manifest", 404), Upstream("tools/list", 500)>>
        /\ Apply(Goto("mcp_return", [run EXCEPT !.out = BootstrapFailure(500)], 2))
     \/ /\ upstream' = upstream \o CatalogueRequests
        /\ Apply(SelectTool(run, ServedTools, 2))
  /\ UNCHANGED calls
  /\ RunUnchanged

\* discoverPathsWithTool(requestType 'discovery')
McpDiscovery ==
  /\ pc = "mcp_discovery"
  /\ \E res \in HostResults(run.other) :
       /\ calls' = Append(calls, Call("discovery", run.other, DiscoveryArgs(run, run.other), res))
       /\ Apply(ResolvePaths(run, IF res.ok THEN parseDiscoveryResultPaths(res) ELSE <<>>, 1))
  /\ UNCHANGED upstream
  /\ RunUnchanged

\* callTool(selectedTool.name, args, 'primary')
McpPrimary ==
  /\ pc = "mcp_primary"
  /\ \/ /\ calls' = Append(calls, Call("primary", run.selected, run.args, Rejected))
        /\ pc' = "catch"
        /\ UNCHANGED <<run, frames>>
     \/ \E res \in HostResults(run.selected) :
          LET r == [run EXCEPT !.callResult = res]
              searchDiscoveryTool ==
                IF findToolByName(run.tools, "list_docs") # NoTool THEN "list_docs"
                ELSE pickDiscoveryTool(run.tools, run.plan.discovery.tool)
          IN /\ calls' = Append(calls, Call("primary", run.selected, run.args, res))
             /\ IF ~res.ok
                  THEN Apply(Goto("mcp_return",
                                  [r EXCEPT !.out = ToolCallFailed(res, run.selected, run.args)],
                                  2))
                  ELSE IF /\ isSearchLikeTool(run.selected)
                          /\ res.hits = "empty"
                          /\ searchDiscoveryTool # NoTool
                         THEN Apply(Goto("mcp_search_discovery",
                                         [r EXCEPT !.other = searchDiscoveryTool], 1))
                         ELSE Apply(SummaryChain(r, 1))
  /\ UNCHANGED upstream
  /\ RunUnchanged

\* discoverPathsWithTool(requestType 'search-discovery')
McpSearchDiscovery ==
  /\ pc = "mcp_search_discovery"
  /\ \E res \in HostResults(run.other) :
       LET searchDiscoveryPaths == parseDiscoveryResultPaths(res)
       IN /\ calls' = Append(calls, Call("search-discovery", run.other,
                                         sanitizeToolArguments(run.other, RunQuery(run),
                                                               PlanArgs(SearchDiscoveryPlan)),
                                         res))
          /\ IF searchDiscoveryPaths # <<>>
               THEN Apply(Goto("mcp_search_retry",
                               [run EXCEPT !.otherArgs =
                                  sanitizeToolArguments(run.selected, RunQuery(run),
                                    [run.args EXCEPT !.hasPaths = TRUE,
                                                     !.paths = searchDiscoveryPaths])], 1))
               ELSE Apply(SummaryChain(run, 1))
  /\ UNCHANGED upstream
  /\ RunUnchanged

\* a search retry whose result is adopted whatever its status
McpSearchRetryAlwaysAdopts ==
  /\ pc = "mcp_search_retry"
  /\ \E res \in HostResults(run.selected) :
       /\ calls' = Append(calls, Call("search-retry", run.selected, run.otherArgs, res))
       /\ Apply(SummaryChain([run EXCEPT !.args = run.otherArgs, !.callResult = res], 1))
  /\ UNCHANGED upstream
  /\ RunUnchanged

\* callTool(selectedTool.name, retrySearchArgs, 'search-retry')
McpSearchRetry ==
  /\ pc = "mcp_search_retry"
  /\ \E res \in HostResults(run.selected) :
       /\ calls' = Append(calls, Call("search-retry", run.selected, run.otherArgs, res))
       /\ IF res.ok
            THEN Apply(SummaryChain([run EXCEPT !.args = run.otherArgs, !.callResult = res], 1))
            ELSE Apply(SummaryChain(run, 1))
  /\ UNCHANGED upstream
  /\ RunUnchanged

\* discoverPathsWithTool(requestType 'summary-discovery')
McpSummaryDiscovery ==
  /\ pc = "mcp_summary_discovery"
  /\ \E res \in HostResults(run.other) :
       LET inferredPaths == IF res.ok THEN parseDiscoveryResultPaths(res) ELSE <<>>
       IN /\ calls' = Append(calls, Call("summary-discovery", run.other,
                                         DiscoveryArgs(run, run.other), res))
          /\ IF inferredPaths # <<>>
               THEN Apply(Goto("mcp_summary_chain",
                               [run EXCEPT !.otherArgs =
                                  sanitizeToolArguments(summaryToolOf(run), RunQuery(run),
                                    [hasPaths |-> TRUE, paths |-> inferredPaths,
                                     hasOutput |-> TRUE, extensions |-> <<>>])], 1))
               ELSE Apply(Goto("mcp_return",
                               [run EXCEPT !.out = createResponseFromCallResult(
                                                     run.callResult, run.selected, run.args)], 1))
  /\ UNCHANGED upstream
  /\ RunUnchanged

\* a summary chain that reports the summary tool whatever its call returned
McpSummaryChainAlwaysChains ==
  /\ pc = "mcp_summary_chain"
  /\ \E res \in HostResults(summaryToolOf(run)) :
       /\ calls' = Append(calls, Call("summary-chain", summaryToolOf(run), run.otherArgs, res))
       /\ Apply(Goto("mcp_return",
                     [run EXCEPT !.out = createResponseFromCallResult(
                                           res, summaryToolOf(run), run.otherArgs)], 1))
  /\ UNCHANGED upstream
  /\ RunUnchanged

\* callTool(summaryTool.name, summaryArgs, 'summary-chain')
McpSummaryChain ==
  /\ pc = "mcp_summary_chain"
  /\ \E res \in HostResults(summaryToolOf(run)) :
       /\ calls' = Append(calls, Call("summary-chain", summaryToolOf(run), run.otherArgs, res))
       /\ IF res.ok
            THEN Apply(Goto("mcp_return",
                            [run EXCEPT !.out = createResponseFromCallResult(
                                                  res, summaryToolOf(run), run.otherArgs)], 1))
            ELSE Apply(Goto("mcp_return",
                            [run EXCEPT !.out = createResponseFromCallResult(
                                                  run.callResult, run.selected, run.args)], 1))
  /\ UNCHANGED upstream
  /\ RunUnchanged

\* a workflow gate that does not look at the initial response's status
McpReturnInitialAnyStatus ==
  /\ pc = "mcp_return" /\ run.kind = "initial"
  /\ response' = proxyResponse(run.out)
  /\ run' = NoRun
  /\ frames' = Emit(1)
  /\ IF /\ executionPlan.workflow.schema = "workflow.steps.v1"
        /\ Len(executionPlan.workflow.steps) > 0
       THEN /\ workflowState' = [ran |-> TRUE, type |-> executionPlan.workflow.type,
                                 proceeded |-> FALSE, steps |-> <<>>]
            /\ wf' = [idx |-> 1, syncPayload |-> evaluateGitHubPRReadiness(response'),
                      stepResults |-> {},
                      lastSyncStatus |-> IF response'.tool = "sync_status"
                                           THEN evaluateGitHubPRReadiness(response')
                                           ELSE NoSync]
            /\ pc' = "wf_next"
       ELSE /\ pc' = "retry_check"
            /\ UNCHANGED <<workflowState, wf>>
  /\ UNCHANGED <<cfg, fn, socket, upstream, plan, executionPlan, manifestTools, retried, pipe, calls, execs, llm,
                 ended>>

\* ------------------------------------------------- returns of runMCPAgent
\* the initial execution returns to runOrchestration: the workflow gate
McpReturnInitial ==
  /\ pc = "mcp_return" /\ run.kind = "initial"
  /\ response' = proxyResponse(run.out)
  /\ run' = NoRun
  /\ frames' = Emit(1)
  /\ IF /\ executionPlan.workflow.schema = "workflow.steps.v1"
        /\ Len(executionPlan.workflow.steps) > 0
        /\ response'.mcpStatus < 400
       THEN /\ workflowState' = [ran |-> TRUE, type |-> executionPlan.workflow.type,
                                 proceeded |-> FALSE, steps |-> <<>>]
            /\ wf' = [idx |-> 1, syncPayload |-> evaluateGitHubPRReadiness(response'),
                      stepResults |-> {},
                      lastSyncStatus |-> IF response'.tool = "sync_status"
                                           THEN evaluateGitHubPRReadiness(response')
                                           ELSE NoSync]
            /\ pc' = "wf_next"
       ELSE /\ pc' = "retry_check"
            /\ UNCHANGED <<workflowState, wf>>
  /\ UNCHANGED <<cfg, fn, socket, upstream, plan, executionPlan, manifestTools, retried, pipe, calls, execs, llm,
                 ended>>

\* runWorkflowSteps: the step's execute() returns
McpReturnStep ==
  /\ pc = "mcp_return" /\ run.kind = "step"
  /\ LET step == executionPlan.workflow.steps[wf.idx]
         activeResponse == proxyResponse(run.out)
         evaluated == evaluateGitHubPRReadiness(activeResponse)
     IN /\ response' = activeResponse
        /\ wf' = [idx |-> wf.idx + 1,
                  syncPayload |-> IF evaluated.parsed THEN evaluated ELSE wf.syncPayload,
                  stepResults |-> wf.stepResults \cup {step.id},
                  lastSyncStatus |-> IF evaluated.parsed /\ activeResponse.tool = "sync_status"
                                       THEN evaluated ELSE wf.lastSyncStatus]
        /\ workflowState' =
             [workflowState EXCEPT !.steps =
                Append(@, [id |-> step.id, tool |-> step.tool, executed |-> TRUE,
                           skipped |-> FALSE, status |-> activeResponse.mcpStatus])]
  /\ run' = NoRun
  /\ frames' = Emit(1)
  /\ pc' = "wf_next"
  /\ UNCHANGED <<cfg, fn, socket, upstream, plan, executionPlan, manifestTools, retried, pipe, calls, execs, llm,
                 ended>>

\* runWorkflowSteps: a step whose `when` does not hold is recorded as skipped
WfSkip ==
  /\ pc = "wf_next"
  /\ wf.idx <= Len(executionPlan.workflow.steps)
  /\ LET step == executionPlan.workflow.steps[wf.idx]
     IN /\ ~shouldRunWorkflowStep(step.when, wf.syncPayload, wf.stepResults)
        /\ workflowState' =
             [workflowState EXCEPT !.steps =
                Append(@, [id |-> step.id, tool |-> step.tool, executed |-> FALSE,
                           skipped |-> TRUE, status |-> 0])]
  /\ wf' = [wf EXCEPT !.idx = @ + 1]
  /\ UNCHANGED <<cfg, fn, socket, upstream, pc, plan, executionPlan, manifestTools, response, retried, run, pipe,
                 frames, calls, execs, llm, ended>>

\* runWorkflowSteps: a step whose `when` holds is executed
WfExecute ==
  /\ pc = "wf_next"
  /\ wf.idx <= Len(executionPlan.workflow.steps)
  /\ LET step == executionPlan.workflow.steps[wf.idx]
     IN /\ shouldRunWorkflowStep(step.when, wf.syncPayload, wf.stepResults)
        /\ BeginRun("step", StepPlan(step), 1)
  /\ UNCHANGED <<cfg, fn, socket, upstream, plan, executionPlan, manifestTools, response, retried, workflowState,
                 wf, pipe, calls, llm, ended>>

\* runWorkflowSteps: after the last step, the github_pr termination rule
WfFinish ==
  /\ pc = "wf_next"
  /\ wf.idx > Len(executionPlan.workflow.steps)
  /\ LET steps == executionPlan.workflow.steps
         createdIds == {steps[i].id : i \in {j \in 1..Len(steps) : IdIncludesCreatePr(steps[j].id)}}
         created == createdIds # {} /\ createdIds \subseteq wf.stepResults
     IN IF executionPlan.workflow.type = "github_pr"
          THEN /\ workflowState' = [workflowState EXCEPT !.proceeded = created]
               /\ response' =
                    IF created THEN response
                    ELSE [response EXCEPT
                            !.answer = Text(IF @.n = 0 THEN ReasonLen ELSE ReasonLen + 2 + @.n,
                                            @.pathIssue),
                            !.requiresInput = TRUE,
                            !.missing = "workspace_state"]
          ELSE /\ workflowState' = [workflowState EXCEPT !.proceeded = TRUE]
               /\ UNCHANGED response
  /\ pc' = "retry_check"
  /\ UNCHANGED <<cfg, fn, socket, upstream, plan, executionPlan, manifestTools, retried, wf, run, pipe, frames,
                 calls, execs, llm, ended>>

\* runOrchestration: the path-issue retry decision
RetryCheck ==
  /\ pc = "retry_check"
  /\ IF shouldRetryForPathIssue(response)
       THEN IF findToolByName(manifestTools, "list_docs") # NoTool /\ executionPlan.tool # NoTool
              THEN /\ BeginRun("retry_discovery",
                               Plan("list_docs",
                                    buildListDocsArguments("list_docs",
                                      IF executionPlan.toolArguments.hasPaths
                                        THEN executionPlan.toolArguments.paths ELSE <<>>),
                                    MdOnly(routedPrompt), NoDiscovery, NoWorkflow), 1)
                   /\ UNCHANGED retried
              ELSE /\ retried' = TRUE
                   /\ BeginRun("retry", buildRetryExecutionPlan(executionPlan), 1)
       ELSE /\ pc' = "summary_check"
            /\ UNCHANGED <<retried, run, execs, frames>>
  /\ UNCHANGED <<cfg, fn, socket, upstream, plan, executionPlan, manifestTools, response, workflowState, wf, pipe,
                 calls, llm, ended>>

\* the list_docs discovery execution returns: retry with the discovered
\* .md paths, or ask for paths
McpReturnDiscovery ==
  /\ pc = "mcp_return" /\ run.kind = "retry_discovery"
  /\ LET discoveredMdPaths == extractMdPathsFromResponse(proxyResponse(run.out))
     IN IF discoveredMdPaths # <<>>
          THEN /\ retried' = TRUE
               /\ BeginRun("retry", RetryPlanWithPaths(executionPlan, discoveredMdPaths), 2)
               /\ UNCHANGED response
          ELSE /\ response' = [response EXCEPT !.answer = Text(HostTextLen, FALSE),
                                               !.requiresInput = TRUE,
                                               !.missing = "paths"]
               /\ run' = NoRun
               /\ frames' = Emit(1)
               /\ pc' = "summary_check"
               /\ UNCHANGED <<retried, execs>>
  /\ UNCHANGED <<cfg, fn, socket, upstream, plan, executionPlan, manifestTools, workflowState, wf, pipe, calls, llm,
                 ended>>

\* a retry whose response is handed back to the path-issue check
McpReturnRetryAgain ==
  /\ pc = "mcp_return" /\ run.kind = "retry"
  /\ response' = proxyResponse(run.out)
  /\ run' = NoRun
  /\ frames' = Emit(1)
  /\ pc' = "retry_check"
  /\ UNCHANGED <<cfg, fn, socket, upstream, plan, executionPlan, manifestTools, retried, workflowState, wf, pipe,
                 calls, execs, llm, ended>>

\* the retry execution returns
McpReturnRetry ==
  /\ pc = "mcp_return" /\ run.kind = "retry"
  /\ response' = proxyResponse(run.out)
  /\ run' = NoRun
  /\ frames' = Emit(1)
  /\ pc' = "summary_check"
  /\ UNCHANGED <<cfg, fn, socket, upstream, plan, executionPlan, manifestTools, retried, workflowState, wf, pipe,
                 calls, execs, llm, ended>>

\* ---------------------------------------------------------- runSummaryAgent
SkipSummary ==
  /\ pc = "summary_check"
  /\ ~shouldHandoffToSummaryAgent(response, plan.route)
  /\ pc' = "writer"
  /\ UNCHANGED <<cfg, fn, socket, upstream, plan, executionPlan, manifestTools, response, retried, workflowState,
                 wf, run, pipe, frames, calls, execs, llm, ended>>

\* a summary agent whose result is handed back to the hand-off test
runSummaryAgentAgain ==
  /\ pc = "summary_check"
  /\ shouldHandoffToSummaryAgent(response, plan.route)
  /\ llm' = [llm EXCEPT !.summary = @ + 1]
  /\ \/ /\ pc' = "catch"
        /\ frames' = Emit(1)
        /\ UNCHANGED response
     \/ \E n \in TextLens :
          /\ response' = Drafted(response, n)
          /\ frames' = Emit(2)
          /\ pc' = "summary_check"
  /\ UNCHANGED <<cfg, fn, socket, upstream, plan, executionPlan, manifestTools, retried, workflowState, wf, run,
                 pipe, calls, execs, ended>>

runSummaryAgent ==
  /\ pc = "summary_check"
  /\ shouldHandoffToSummaryAgent(response, plan.route)
  /\ llm' = [llm EXCEPT !.summary = @ + 1]
  /\ \/ /\ pc' = "catch"
        /\ frames' = Emit(1)
        /\ UNCHANGED response
     \/ \E n \in TextLens :
          /\ response' = Drafted(response, n)
          /\ frames' = Emit(2)
          /\ pc' = "writer"
  /\ UNCHANGED <<cfg, fn, socket, upstream, plan, executionPlan, manifestTools, retried, workflowState, wf, run,
                 pipe, calls, execs, ended>>

\* ------------------------------------------------ runWriterEvaluationPipeline
\* runWriterAgent: the first draft is written from the response, the second
\* from the first draft
runWriterAgent ==
  /\ pc = "writer"
  /\ llm' = [llm EXCEPT !.writer = @ + 1]
  /\ \/ /\ pc' = "catch"
        /\ frames' = Emit(1)
        /\ UNCHANGED pipe
     \/ \E n \in TextLens :
          LET baseResponse == IF pipe.drafts = <<>> THEN response ELSE pipe.drafted
          IN /\ pipe' = [pipe EXCEPT !.drafted = Drafted(baseResponse, n),
                                     !.drafts = Append(@, Drafted(baseResponse, n).answer)]
             /\ frames' = Emit(2)
             /\ pc' = "evaluator"
  /\ UNCHANGED <<cfg, fn, socket, upstream, plan, executionPlan, manifestTools, response, retried, workflowState,
                 wf, run, calls, execs, ended>>

\* a pipeline with a third pass
PipelineReturnsAfterThree(evals) == Len(evals) = 3 \/ evals[1].pass

\* a pipeline that keeps revising until an evaluation passes
PipelineReturnsOnPass(evals) == evals[Len(evals)].pass

\* the pipeline's decision after an evaluation: return after a passing first
\* evaluation, and after the second evaluation whatever it says
PipelineReturns(evals) == Len(evals) = 2 \/ evals[1].pass

\* runEvaluatorAgent, and the pipeline's return
runEvaluatorAgent ==
  /\ pc = "evaluator"
  /\ llm' = [llm EXCEPT !.evaluator = @ + 1]
  /\ \/ /\ pc' = "catch"
        /\ frames' = Emit(1)
        /\ UNCHANGED <<pipe, response>>
     \/ \E o \in EvalOutputs :
          LET parsed == ParseEvaluation(o)
          IN /\ pipe' = [pipe EXCEPT !.evals = Append(@, parsed)]
             /\ frames' = Emit(2)
             /\ IF PipelineReturns(pipe'.evals)
                  THEN /\ response' = [pipe.drafted EXCEPT !.qualityCheck = parsed]
                       /\ pc' = "output"
                  ELSE /\ pc' = "writer"
                       /\ UNCHANGED response
  /\ UNCHANGED <<cfg, fn, socket, upstream, plan, executionPlan, manifestTools, retried, workflowState, wf, run,
                 calls, execs, ended>>

\* ------------------------------------------------------ the stream handler
\* a stream that writes `final` ahead of the text chunks
runOutputAgentStreamFinalFirst ==
  /\ pc = "output"
  /\ frames' = Emit(1) \o << Final(response) >> \o streamText(response.answer.n)
                 \o << Frame("done", TRUE) >>
                 \o (IF ended THEN <<>> ELSE << Frame("a2a", TRUE) >>)
  /\ ended' = TRUE
  /\ pc' = "ended"
  /\ UNCHANGED <<cfg, fn, socket, upstream, plan, executionPlan, manifestTools, response, retried, workflowState,
                 wf, run, pipe, calls, execs, llm>>

\* a catch block that closes the stream without the `error` frame
CatchDoneOnly ==
  /\ pc = "catch"
  /\ frames' = IF ended THEN frames ELSE Append(frames, Frame("done", FALSE))
  /\ ended' = TRUE
  /\ pc' = "failed"
  /\ UNCHANGED <<cfg, fn, socket, upstream, plan, executionPlan, manifestTools, response, retried, workflowState,
                 wf, run, pipe, calls, execs, llm>>

\* runOutputAgentStream, then res.end()
runOutputAgentStream ==
  /\ pc = "output"
  /\ frames' = Emit(1) \o streamText(response.answer.n)
                 \o << Final(response), Frame("done", TRUE) >>
                 \o (IF ended THEN <<>> ELSE << Frame("a2a", TRUE) >>)
  /\ ended' = TRUE
  /\ pc' = "ended"
  /\ UNCHANGED <<cfg, fn, socket, upstream, plan, executionPlan, manifestTools, response, retried, workflowState,
                 wf, run, pipe, calls, execs, llm>>

\* the handler's catch block: emit('error'), emit('done', {ok: false}), res.end()
Catch ==
  /\ pc = "catch"
  /\ frames' = IF ended THEN frames
               ELSE frames \o << Frame("error", FALSE), Frame("done", FALSE) >>
  /\ ended' = TRUE
  /\ pc' = "failed"
  /\ UNCHANGED <<cfg, fn, socket, upstream, plan, executionPlan, manifestTools, response, retried, workflowState,
                 wf, run, pipe, calls, execs, llm>>

Next ==
  \/ PlanRoute
  \/ PlanContext
  \/ PlanSelector
  \/ ExecChat
  \/ McpInitialize
  \/ McpLegacyPost
  \/ McpToolsList
  \/ McpDiscovery
  \/ McpPrimary
  \/ McpSearchDiscovery
  \/ McpSearchRetry
  \/ McpSummaryDiscovery
  \/ McpSummaryChain
  \/ McpReturnInitial
  \/ McpReturnStep
  \/ WfSkip
  \/ WfExecute
  \/ WfFinish
  \/ RetryCheck
  \/ McpReturnDiscovery
  \/ McpReturnRetry
  \/ SkipSummary
  \/ runSummaryAgent
  \/ runWriterAgent
  \/ runEvaluatorAgent
  \/ runOutputAgentStream
  \/ Catch

Spec == Init /\ [][Next]_vars

\* ------------------------------------------------------ the client goes away
\* where the request task is when the client closes the connection
ClosePoints == {"plan_route", "plan_context", "plan_selector"}

\* the client closes the SSE connection: the handler registers no 'close'
\* listener and res.writableEnded stays false until res.end() is called
ClientClose ==
  /\ socket.open
  /\ ~ended
  /\ pc \in ClosePoints
  /\ socket' = [open |-> FALSE, framesAtClose |-> Len(frames)]
  /\ UNCHANGED <<cfg, fn, pc, plan, executionPlan, manifestTools, response, retried,
                 workflowState, wf, run, pipe, frames, calls, execs, llm, ended, upstream>>

NextClose == Next \/ ClientClose

SpecClose == Init /\ [][NextClose]_vars

\* ------------------------------------------- the host's catalogue changes
\* requests whose tool host withdraws a tool between planning and execution
ChangedScenarios ==
  << [tools |-> <<"search", "list_docs">>, prompt |-> QSearch,
      defaultPaths |-> <<"notes/">>,
      host |-> "list_changed"],
     [tools |-> <<"pull_changes", "sync_status", "create_pr">>, prompt |-> QPullRequest,
      defaultPaths |-> <<"notes/">>,
      host |-> "list_changed"] >>

InitChanged ==
  /\ cfg \in ScenarioSet \cup Range(ChangedScenarios)
  /\ fn = NoFn
  /\ pc = "plan_route"
  /\ plan = [route |-> "none"]
  /\ executionPlan = NoPlan
  /\ manifestTools = <<>>
  /\ response = NoResponse
  /\ retried = FALSE
  /\ workflowState = NoWorkflowState
  /\ wf = NoWf
  /\ run = NoRun
  /\ pipe = NoPipe
  /\ frames = <<>>
  /\ calls = <<>>
  /\ execs = <<>>
  /\ llm = [plan |-> 0, selector |-> 0, chat |-> 0, summary |-> 0, writer |-> 0, evaluator |-> 0]
  /\ ended = FALSE
  /\ upstream = <<>>
  /\ socket = [open |-> TRUE, framesAtClose |-> 0]

SpecChanged == InitChanged /\ [][Next]_vars

\* ===================================================================== claims
IsStreamFrame(f) == f.event \in {"delta", "final", "done"}
StreamFrames == SelectSeq(frames, IsStreamFrame)
CountFrames(event) == Len(SelectSeq(frames, LAMBDA f : f.event = event))

\* C1: the `done` frame is the last frame written on the SSE stream: once
\* `done` has been written no further frame of any event type is written.
C1_DoneIsLastFrame ==
  \A i \in 1..Len(frames) : frames[i].event = "done" => i = Len(frames)

\* C2: when the orchestration completes, the delta/final/done frames form
\* the sequence delta* final done: exactly one `final`, exactly one `done`,
\* every `delta` before `final`, and `final` before `done`.
C2_DeltaFinalDone ==
  pc = "ended" =>
    /\ Len(StreamFrames) >= 2
    /\ StreamFrames[Len(StreamFrames)].event = "done"
    /\ StreamFrames[Len(StreamFrames) - 1].event = "final"
    /\ \A i \in 1..(Len(StreamFrames) - 2) : StreamFrames[i].event = "delta"

\* a completed request whose answer was streamed in several chunks
C2_Witness == pc = "ended" /\ CountFrames("delta") >= 2 /\ calls # <<>>

\* C3: when the orchestration throws, the stream receives an `error` frame
\* immediately followed by exactly one `done` frame with ok = false, and no
\* `final` or `delta` frame.
C3_ErrorThenDone ==
  pc = "failed" =>
    /\ Len(frames) >= 2
    /\ frames[Len(frames) - 1].event = "error"
    /\ frames[Len(frames)] = Frame("done", FALSE)
    /\ CountFrames("done") = 1
    /\ CountFrames("error") = 1
    /\ CountFrames("final") = 0
    /\ CountFrames("delta") = 0

\* a request that failed in the evaluator, after tool calls and a draft
C3_Witness == pc = "failed" /\ calls # <<>> /\ pipe.drafts # <<>> /\ llm.evaluator > 0

\* C4: every tools/call request sent to a tool whose required set contains
\* `paths` carries a non-empty `paths` array; when no non-empty paths can be
\* established for the selected tool, the tool is not called and the agent
\* returns requiresInput = true.
C4_RequiredPathsCarried ==
  /\ \A i \in 1..Len(calls) :
       "paths" \in ToolRequired(calls[i].tool) =>
         calls[i].args.hasPaths /\ calls[i].args.paths # <<>>
  /\ (pc = "mcp_return" /\ run.selected # NoTool /\ needsPath(run) /\ run.args.paths = <<>>) =>
       /\ run.out.requiresInput
       /\ \A i \in 1..Len(calls) :
            calls[i].exec = Len(execs) => calls[i].tool # run.selected

C6_BlockedWorkflowAsksForWorkspaceState ==
  ( /\ pc \in {"output", "ended"}
    /\ workflowState.ran
    /\ workflowState.type = "github_pr"
    /\ \A i \in 1..Len(workflowState.steps) :
         IdIncludesCreatePr(workflowState.steps[i].id) => ~workflowState.steps[i].executed )
  => /\ response.requiresInput
     /\ response.missing = "workspace_state"
     /\ ~workflowState.proceeded

\* C7: the path-issue retry policy fires at most once: at most one list_docs
\* discovery execution and at most one re-execution of the execution plan,
\* even when the retried response again indicates a path issue; retried is
\* true exactly when the plan was re-executed.
C7_RetryAtMostOnce ==
  LET discoveries == SelectSeq(execs, LAMBDA e : e.kind = "retry_discovery")
      retries == SelectSeq(execs, LAMBDA e : e.kind = "retry")
  IN /\ Len(discoveries) <= 1
     /\ Len(retries) <= 1
     /\ retried <=> Len(retries) = 1
     /\ \A i \in 1..Len(discoveries) : discoveries[i].tool = "list_docs"
     /\ \A i \in 1..Len(retries) : retries[i].tool = executionPlan.tool

\* a completed request whose retried response still indicates a path issue
C7_Witness ==
  /\ pc = "ended"
  /\ retried
  /\ shouldRetryForPathIssue(response)
  /\ \E i \in 1..Len(execs) : execs[i].kind = "retry_discovery"

summaryCalls ==
  SelectSeq(calls, LAMBDA c : c.tool = findSummaryTool(manifestTools))

\* C8: when the planned tool is the summary tool and the first call to it
\* answers with a path issue, the number of tools/call requests naming the
\* summary tool over the whole request is at most two.
C8_AtMostTwoSummaryCalls ==
  ( /\ executionPlan.tool # NoTool
    /\ executionPlan.tool = findSummaryTool(manifestTools)
    /\ summaryCalls # <<>>
    /\ summaryCalls[1].pathIssue )
  => Len(summaryCalls) <= 2

\* C9: the writer and the evaluator are each invoked at most twice; the
\* second writer and evaluator invocations happen if and only if the first
\* evaluation has pass = false, and the pipeline then returns the second
\* draft with the second evaluation whatever its verdict.
C9_WriterEvaluatorRounds ==
  /\ llm.writer <= 2
  /\ llm.evaluator <= 2
  /\ Len(pipe.drafts) <= llm.writer
  /\ Len(pipe.evals) <= llm.evaluator
  /\ llm.writer = 2 => Len(pipe.evals) >= 1 /\ ~pipe.evals[1].pass
  /\ llm.evaluator = 2 => llm.writer = 2 /\ Len(pipe.drafts) = 2
  /\ (pc \in {"output", "ended"} /\ llm.writer > 0) =>
       /\ Len(pipe.drafts) = Len(pipe.evals)
       /\ llm.writer = Len(pipe.drafts)
       /\ llm.evaluator = Len(pipe.evals)
       /\ Len(pipe.evals) = 2 <=> ~pipe.evals[1].pass
       /\ response.answer = pipe.drafts[Len(pipe.drafts)]
       /\ response.qualityCheck = pipe.evals[Len(pipe.evals)]

\* a completed request whose second evaluation failed as well, and whose
\* second draft differs from the first
C9_Witness ==
  /\ pc = "ended"
  /\ Len(pipe.evals) = 2
  /\ ~pipe.evals[2].pass
  /\ pipe.drafts[1] # pipe.drafts[2]

\* C10: for every evaluator output, the qualityCheck attached to the
\* response has pass equal to true or false and 0 <= score <= 100.
C10_QualityCheckRange ==
  response.qualityCheck.present =>
    /\ response.qualityCheck.pass \in BOOLEAN
    /\ response.qualityCheck.score >= 0
    /\ response.qualityCheck.score <= 100

\* ------------------------------------------------ functions applied on their own
\* no request is being handled
Idle ==
  /\ cfg = Scenarios[1]
  /\ pc = "idle"
  /\ plan = [route |-> "none"]
  /\ executionPlan = NoPlan
  /\ manifestTools = <<>>
  /\ response = NoResponse
  /\ retried = FALSE
  /\ workflowState = NoWorkflowState
  /\ wf = NoWf
  /\ run = NoRun
  /\ pipe = NoPipe
  /\ frames = <<>>
  /\ calls = <<>>
  /\ execs = <<>>
  /\ llm = [plan |-> 0, selector |-> 0, chat |-> 0, summary |-> 0, writer |-> 0, evaluator |-> 0]
  /\ ended = FALSE
  /\ upstream = <<>>
  /\ socket = [open |-> TRUE, framesAtClose |-> 0]

UnchangedRequest ==
  UNCHANGED <<cfg, pc, plan, executionPlan, manifestTools, response, retried, workflowState,
              wf, run, pipe, frames, calls, execs, llm, ended, upstream, socket>>

Applying(op, input) ==
  [op |-> op, input |-> input, done |-> FALSE, once |-> <<>>, twice |-> <<>>]

\* normalizePathInput: every string of up to MaxPathLen characters of
\* PathAlphabet, some longer strings, and arrays of up to MaxPathItems strings
MaxPathLen == 3
MaxPathItems == 2
PathAlphabet == {"a", "n", ".", "/", "\\", ",", " ", "\t"}
SeqsUpTo(S, n) == UNION {[1..k -> S] : k \in 0..n}
LongPaths ==
  { <<"n", "o", "t", "e", "s", "/">>,
    <<"a", ".", "m", "d">>,
    <<"n", "o", "t", "e", "s", "/", "a", ".", "m", "d">>,
    <<"a", ".", "m", "d", ",", " ", "b", ".", "m", "d">>,
    <<"a", ".", "m", "d", " ", "a", ".", "m", "d">>,
    <<".", "/", "d", "o", "c", "s", "/", "a", ".", "m", "d", " ", "b">>,
    <<"s", "e", "e", " ", "n", "o", "t", "e", "s", "/">>,
    <<" ", "d", "o", "c", "s", "\\", "a", ".", "m", "d", "\n">>,
    <<"a", "b", "c">>,
    <<"d", "o", "c", "s", ";", "d", "o", "c", "s">> }
PathItems == {<<>>, <<" ">>, <<"a">>, <<" ", "a">>, <<"a", "\t">>, <<"a", "/">>, <<"\\">>}
PathInputs ==
  {Str(c) : c \in SeqsUpTo(PathAlphabet, MaxPathLen) \cup LongPaths}
    \cup {Arr(a) : a \in SeqsUpTo(PathItems, MaxPathItems)}

PathInit == Idle /\ fn \in {Applying("normalizePathInput", x) : x \in PathInputs}

\* normalizePathInput(input), and normalizePathInput of that result
NormalizePath ==
  /\ fn.op = "normalizePathInput" /\ ~fn.done
  /\ fn' = [fn EXCEPT !.done = TRUE,
                      !.once = normalizePathInput(fn.input),
                      !.twice = normalizePathInput(Arr(normalizePathInput(fn.input)))]
  /\ UnchangedRequest

NextPaths == NormalizePath

SpecPaths == PathInit /\ [][NextPaths]_vars

\* sanitizeToolArguments on whole argument mappings. A value is undefined (the
\* key is absent), a string, an array of strings, or a number; a schema gives
\* each key its property type ("none": not a property) and the required keys.
ArgKeys == {"paths", "path", "output_path", "query", "text", "limit"}
Absent == [t |-> "undefined", s |-> <<>>, a |-> <<>>]
StrV(s) == [t |-> "string", s |-> s, a |-> <<>>]
ArrV(a) == [t |-> "array", s |-> <<>>, a |-> a]
NumV(digits) == [t |-> "number", s |-> digits, a |-> <<>>]       \* a non-zero number
Truthy(v) == v.t \in {"array", "number"} \/ (v.t = "string" /\ v.s # <<>>)

DefaultPathChars == <<<<"n", "o", "t", "e", "s", "/">>>>      \* LOCAL_MCP_DEFAULT_PATHS
OutputMd == <<"o", "u", "t", "p", "u", "t", ".", "m", "d">>   \* 'output.md'
candidateKeys == <<"query", "input", "text", "prompt", "q", "question", "content">>

normalizeArrayArgumentOf(v) ==
  IF v.t = "array" THEN normalizePathInput(Arr(v.a))
  ELSE IF v.t = "string" THEN normalizePathInput(Str(v.s))
  ELSE <<>>

SchemaKeys(schema) == {k \in ArgKeys : schema.props[k] # "none"}
TheOne(S) == CHOOSE x \in S : TRUE

\* the `paths` block: inputArgs.paths || inputArgs.path, else the paths of the
\* seed, else the default paths
PathsBlock(schema, seed, inputArgs) ==
  IF "paths" \in SchemaKeys(schema) \/ "paths" \in schema.required
    THEN TheOne({ [inputArgs EXCEPT !["paths"] =
                     ArrV(IF providedPaths # <<>> THEN providedPaths
                          ELSE IF fallbackPaths # <<>> THEN fallbackPaths
                          ELSE DefaultPathChars)] :
                  providedPaths \in
                    {normalizeArrayArgumentOf(
                       IF Truthy(inputArgs["paths"]) THEN inputArgs["paths"]
                       ELSE IF Truthy(inputArgs["path"]) THEN inputArgs["path"]
                       ELSE Absent)},
                  fallbackPaths \in {normalizePathInput(Str(seed))} })
    ELSE inputArgs

\* the `output_path` block
OutputPathBlock(schema, inputArgs) ==
  IF /\ "output_path" \in schema.required \/ "output_path" \in SchemaKeys(schema)
     /\ inputArgs["output_path"].t # "string" \/ Trim(inputArgs["output_path"].s) = <<>>
    THEN [inputArgs EXCEPT !["output_path"] = StrV(OutputMd)]
    ELSE inputArgs

\* the loop over the schema's properties
PropertiesLoop(schema, inputArgs) ==
  [k \in ArgKeys |->
     IF k \notin SchemaKeys(schema) \/ inputArgs[k].t = "undefined" THEN inputArgs[k]
     ELSE IF schema.props[k] = "array" THEN ArrV(normalizeArrayArgumentOf(inputArgs[k]))
     ELSE IF schema.props[k] = "string" /\ inputArgs[k].t \notin {"array", "string"}
       THEN StrV(inputArgs[k].s)
     ELSE inputArgs[k]]

\* the loop over the required keys
RequiredLoop(schema, seed, inputArgs) ==
  [k \in ArgKeys |->
     IF k \notin schema.required \/ inputArgs[k].t # "undefined" THEN inputArgs[k]
     ELSE IF k = "output_path" THEN StrV(OutputMd)
     ELSE IF k = "paths"
       THEN TheOne({ ArrV(IF parsedPaths # <<>> THEN parsedPaths ELSE DefaultPathChars) :
                     parsedPaths \in {normalizePathInput(Str(seed))} })
     ELSE StrV(seed)]

\* the loop over candidateKeys: the first one of the schema that is still absent
CandidateLoop(schema, seed, inputArgs) ==
  LET missing == SelectSeq(candidateKeys,
                           LAMBDA k : k \in SchemaKeys(schema) /\ inputArgs[k].t = "undefined")
  IN IF missing = <<>> THEN inputArgs ELSE [inputArgs EXCEPT ![Head(missing)] = StrV(seed)]

\* sanitizeToolArguments: each block reads the mapping the block before it wrote
sanitizeToolArgumentMap(schema, seed, toolArguments) ==
  TheOne({ CandidateLoop(schema, seed, a4) :
           a4 \in { RequiredLoop(schema, seed, a3) :
           a3 \in { PropertiesLoop(schema, a2) :
           a2 \in { OutputPathBlock(schema, a1) :
           a1 \in { PathsBlock(schema, seed, toolArguments) } } } } })

Schema(props, required) ==
  [props |-> [k \in ArgKeys |-> IF k \in DOMAIN props THEN props[k] ELSE "none"],
   required |-> required]

ToolSchemas ==
  { Schema([paths |-> "array", output_path |-> "string"], {"paths"}),
    Schema([query |-> "string", paths |-> "array", limit |-> "string"], {"query"}),
    Schema([query |-> "string", text |-> "string"], {}),
    Schema([paths |-> "string"], {"output_path", "text"}),
    Schema([limit |-> "number"], {}),
    Schema([text |-> "string"], {"paths", "text"}) }

SeedQueries == { <<"q">>, <<"n", "o", "t", "e", "s", "/", "a", ".", "m", "d">> }

ArgumentMaps ==
  { [paths |-> p, path |-> q, output_path |-> o, query |-> u, text |-> x, limit |-> l] :
      p \in { Absent, ArrV(<<>>), ArrV(<< <<" ", "a", ".", "m", "d">>, <<"a", ".", "m", "d">> >>),
              StrV(<<"a", ".", "m", "d", ",", "b", ".", "m", "d">>), StrV(<<>>) },
      q \in { Absent, StrV(<<"n", "o", "t", "e", "s", "/">>) },
      o \in { Absent, StrV(<<" ">>), StrV(<<"o", ".", "m", "d">>) },
      u \in { Absent, StrV(<<"u">>) },
      x \in { Absent, StrV(<<"x">>) },
      l \in { Absent, NumV(<<"5">>) } }

SanitizeInit ==
  /\ Idle
  /\ fn \in { Applying("sanitizeToolArguments", [schema |-> sc, seed |-> sd, args |-> a]) :
               sc \in ToolSchemas, sd \in SeedQueries, a \in ArgumentMaps }

\* sanitizeToolArguments(tool, seed, args), and the same applied to its result
Sanitize ==
  /\ fn.op = "sanitizeToolArguments" /\ ~fn.done
  /\ \E once \in {sanitizeToolArgumentMap(fn.input.schema, fn.input.seed, fn.input.args)} :
       fn' = [fn EXCEPT !.done = TRUE,
                        !.once = once,
                        !.twice = sanitizeToolArgumentMap(fn.input.schema, fn.input.seed, once)]
  /\ UnchangedRequest

NextSanitize == Sanitize

SpecSanitize == SanitizeInit /\ [][NextSanitize]_vars

\* mergeToolSpecs on tool descriptors {name, description, inputSchema:
\* {properties, required}}. "absent" stands for a field the descriptor does
\* not have, the name "" for a descriptor without a string name.
ToolSpec(name, description, hasSchema, properties, required) ==
  [name |-> name, description |-> description, hasSchema |-> hasSchema,
   properties |-> properties, required |-> required]

\* {...enriched, ...tool}: the base descriptor's fields win
MergeToolBaseWins(tool, enriched) ==
  [name        |-> tool.name,
   description |-> IF tool.description # "absent" THEN tool.description
                   ELSE enriched.description,
   hasSchema   |-> TRUE,
   properties  |-> IF tool.properties # "absent" THEN tool.properties
                   ELSE enriched.properties,
   required    |-> IF tool.required # "absent" THEN tool.required ELSE enriched.required]

\* {...tool, ...enriched, inputSchema: {...tool.inputSchema, ...enriched.inputSchema}}
MergeTool(tool, enriched) ==
  [name        |-> enriched.name,
   description |-> IF enriched.description # "absent" THEN enriched.description
                   ELSE tool.description,
   hasSchema   |-> TRUE,
   properties  |-> IF enriched.properties # "absent" THEN enriched.properties
                   ELSE tool.properties,
   required    |-> IF enriched.required # "absent" THEN enriched.required ELSE tool.required]

mergeToolSpecs(baseTools, enrichedTools) ==
  LET inMap(n) == n # "" /\ \E i \in 1..Len(enrichedTools) : enrichedTools[i].name = n
      enrichedMap(n) ==
        enrichedTools[MaxOf({i \in 1..Len(enrichedTools) : enrichedTools[i].name = n})]
      merged == [i \in 1..Len(baseTools) |->
                   IF inMap(baseTools[i].name)
                     THEN MergeTool(baseTools[i], enrichedMap(baseTools[i].name))
                     ELSE baseTools[i]]
      existingNames == {merged[i].name : i \in 1..Len(merged)}
  IN merged \o SelectSeq(enrichedTools,
                         LAMBDA e : e.name # "" /\ e.name \notin existingNames)

\* the descriptors the lists are drawn from, and the lists: three lists of at
\* most MaxTools descriptors in all
MaxTools == 4
ToolSpecs ==
  { ToolSpec("t", "d1", TRUE, "p1", "absent"),
    ToolSpec("t", "absent", TRUE, "p2", "r2"),
    ToolSpec("t", "d3", FALSE, "absent", "absent"),
    ToolSpec("u", "d1", TRUE, "absent", "r1"),
    ToolSpec("", "d0", FALSE, "absent", "absent") }

MergeInit ==
  /\ Idle
  /\ \E a \in SeqsUpTo(ToolSpecs, MaxTools) :
       \E b \in SeqsUpTo(ToolSpecs, MaxTools - Len(a)) :
         \E c \in SeqsUpTo(ToolSpecs, MaxTools - Len(a) - Len(b)) :
           fn = Applying("mergeToolSpecs", [a |-> a, b |-> b, c |-> c])

\* mergeToolSpecs(mergeToolSpecs(A, B), C) and mergeToolSpecs(A, mergeToolSpecs(B, C))
Merge ==
  /\ fn.op = "mergeToolSpecs" /\ ~fn.done
  /\ \E ab \in {mergeToolSpecs(fn.input.a, fn.input.b)},
        bc \in {mergeToolSpecs(fn.input.b, fn.input.c)} :
       fn' = [fn EXCEPT !.done = TRUE,
                        !.once = mergeToolSpecs(ab, fn.input.c),
                        !.twice = mergeToolSpecs(fn.input.a, bc)]
  /\ UnchangedRequest

NextMerge == Merge

SpecMerge == MergeInit /\ [][NextMerge]_vars

\* hasGitHubPRIntent and the workflow probe of planExecutionFromManifest on
\* whole queries. A query is a sequence of characters; a Hangul syllable is
\* one character, written as its code point.
LowerOf(c) ==
  CASE c = "P" -> "p" [] c = "R" -> "r" [] c = "S" -> "s" [] c = "G" -> "g"
    [] c = "H" -> "h" [] c = "C" -> "c" [] OTHER -> c

\* the alternatives of /(pr|pull request|깃허브|github|동기화|sync|커밋|푸시|배포)/i
IntentPattern ==
  << <<"p", "r">>,
     <<"p", "u", "l", "l", " ", "r", "e", "q", "u", "e", "s", "t">>,
     <<"U+AE43", "U+D5C8", "U+BE0C">>,
     <<"g", "i", "t", "h", "u", "b">>,
     <<"U+B3D9", "U+AE30", "U+D654">>,
     <<"s", "y", "n", "c">>,
     <<"U+CEE4", "U+BC0B">>,
     <<"U+D478", "U+C2DC">>,
     <<"U+BC30", "U+D3EC">> >>

\* an intent test without the i flag
hasGitHubPRIntentCaseSensitive(prompt) ==
  \E i \in 1..Len(prompt) : \E a \in 1..Len(IntentPattern) :
    LET kw == IntentPattern[a]
    IN /\ i + Len(kw) - 1 <= Len(prompt)
       /\ \A k \in 1..Len(kw) : prompt[i + k - 1] = kw[k]

\* the pattern .test(prompt): some alternative matches at some position,
\* letters compared without regard to case
hasGitHubPRIntentOf(prompt) ==
  \E i \in 1..Len(prompt) : \E a \in 1..Len(IntentPattern) :
    LET kw == IntentPattern[a]
    IN /\ i + Len(kw) - 1 <= Len(prompt)
       /\ \A k \in 1..Len(kw) : LowerOf(prompt[i + k - 1]) = kw[k]

\* planExecutionFromManifest on a non-empty catalogue: the workflow probe, else
\* the tool selector (one LLM call; the tool it or the heuristic settles on is
\* some tool of the catalogue). The result keeps the plan's tool and workflow
\* and the number of selector calls made.
planExecutionFromManifest(tools, query) ==
  IF /\ hasGitHubPRIntentOf(query)
     /\ findToolByName(tools, "sync_status") # NoTool
     /\ findToolByName(tools, "create_pr") # NoTool
    THEN {[tool |-> GitHubExecutionPlan(tools, query).tool,
           workflow |-> GitHubExecutionPlan(tools, query).workflow,
           selectorCalls |-> 0]}
    ELSE {[tool |-> t, workflow |-> NoWorkflow, selectorCalls |-> 1] : t \in Range(tools)}

\* the queries: every string of up to MaxQueryLen characters of
\* IntentAlphabet, and some longer ones
MaxQueryLen == 3
IntentAlphabet == {"p", "r", "P", "R", " ", "x"}
LongQueries ==
  { <<"c", "o", "m", "m", "i", "t">>,
    <<"p", "u", "s", "h">>,
    <<"d", "e", "p", "l", "o", "y">>,
    <<"s", "y", "n", "c">>,
    <<"S", "y", "n", "c", " ", "i", "t">>,
    <<"G", "i", "t", "H", "u", "b">>,
    <<"p", "u", "l", "l", " ", "r", "e", "q", "u", "e", "s", "t">>,
    <<"p", "u", "l", "l", " ", " ", "r", "e", "q", "u", "e", "s", "t">>,
    <<"c", "o", "m", "p", "r", "e", "s", "s">>,
    <<"h", "e", "l", "l", "o">>,
    <<"U+AE43", "U+D5C8", "U+BE0C">>,
    <<"U+B3D9", "U+AE30", "U+D654">>,
    <<"U+CEE4", "U+BC0B">>,
    <<"U+D478", "U+C2DC">>,
    <<"U+BC30", "U+D3EC">>,
    <<"U+AE43", "U+D5C8">> }
IntentCatalogues ==
  { <<"sync_status", "create_pr">>,
    <<"sync_status", "pull_changes", "create_pr">>,
    <<"list_docs", "create_pr", "sync_status">>,
    <<"sync_status", "list_docs">>,
    <<"create_pr">>,
    <<"search", "list_docs">> }

IntentInit ==
  /\ Idle
  /\ \E q \in SeqsUpTo(IntentAlphabet, MaxQueryLen) \cup LongQueries :
       \E tools \in IntentCatalogues :
         fn = Applying("planExecutionFromManifest", [query |-> q, tools |-> tools])

PlanFromManifest ==
  /\ fn.op = "planExecutionFromManifest" /\ ~fn.done
  /\ \E planned \in planExecutionFromManifest(fn.input.tools, fn.input.query) :
       fn' = [fn EXCEPT !.done = TRUE, !.once = planned]
  /\ UnchangedRequest

NextIntent == PlanFromManifest

SpecIntent == IntentInit /\ [][NextIntent]_vars

\* collectMCPToolContext once initialize has succeeded: the tool list from the
\* manifest's tools and the reply to tools/list (listOk = FALSE: the reply is
\* a failure or carries no tool array)
collectMCPToolContext(fromManifest, listOk, listTools) ==
  IF fromManifest # <<>>
    THEN [ok |-> TRUE,
          tools |-> IF listOk THEN mergeToolSpecs(fromManifest, listTools) ELSE fromManifest]
    ELSE IF listOk THEN [ok |-> TRUE, tools |-> listTools]
         ELSE [ok |-> FALSE, tools |-> <<>>]

\* a manifest and a tools/list reply of at most MaxTools descriptors in all
ContextInit ==
  /\ Idle
  /\ \E m \in SeqsUpTo(ToolSpecs, MaxTools) :
       \E l \in SeqsUpTo(ToolSpecs, MaxTools - Len(m)) :
         \E listOk \in BOOLEAN :
           fn = Applying("collectMCPToolContext",
                         [manifestTools |-> m, listOk |-> listOk, listTools |-> l])

CollectToolContext ==
  /\ fn.op = "collectMCPToolContext" /\ ~fn.done
  /\ fn' = [fn EXCEPT !.done = TRUE,
                      !.once = collectMCPToolContext(fn.input.manifestTools, fn.input.listOk,
                                                     fn.input.listTools)]
  /\ UnchangedRequest

NextContext == CollectToolContext

SpecContext == ContextInit /\ [][NextContext]_vars

\* ---------------------------------------------------------- C11 .. C20
Returned == pc \in {"output", "ended"}
KnownMissing == {"paths", "execution_plan", "workspace_state"}
UpstreamOf(e) == SelectSeq(upstream, LAMBDA u : u.exec = e)
Initializes == SelectSeq(upstream, LAMBDA u : u.req = "initialize")
Deltas == SelectSeq(frames, LAMBDA f : f.event = "delta")
Finals == SelectSeq(frames, LAMBDA f : f.event = "final")

\* C11: every response returned by runOrchestration, on every route and for
\* every outcome, has passed through the writer/evaluator pipeline and
\* carries a qualityCheck.
C11_EveryResponseEvaluated ==
  Returned =>
    /\ llm.writer >= 1
    /\ llm.evaluator >= 1
    /\ pipe.drafts # <<>>
    /\ response.qualityCheck.present

\* C12: in every response, requiresInput = true implies that `missing` is
\* one of paths / execution_plan / workspace_state and that `answer` is not
\* empty, also in the writer's drafts and in the `final` frame.
C12_RequiresInputSentinel ==
  LET WellFormed(r) == r.requiresInput => r.missing \in KnownMissing /\ r.answer.n > 0
  IN /\ WellFormed(response)
     /\ WellFormed(pipe.drafted)
     /\ WellFormed(run.out)
     /\ (Returned /\ response.requiresInput) =>
          \A i \in 1..Len(pipe.drafts) : pipe.drafts[i].n > 0
     /\ (pc = "ended" /\ response.requiresInput) =>
          \A i \in 1..Len(Finals) : Finals[i].len > 0

\* a blocked workflow's response whose writer returned an empty draft: the
\* draft falls back to the response's answer
C12_Witness ==
  /\ pc = "evaluator"
  /\ response.requiresInput
  /\ response.missing = "workspace_state"
  /\ pipe.drafted.answer = response.answer

\* C13: every response has route local_mcp or chat_only whatever the
\* route-decision LLM returns, and the plan's route is one of the two; a
\* chat_only response has mcpStatus 200 and no tool.
C13_RouteIsKnown ==
  LET Routed(r) ==
        /\ r.route \in {"local_mcp", "chat_only"}
        /\ r.route = plan.route
        /\ r.route = "chat_only" => r.mcpStatus = 200 /\ r.tool = NoTool /\ ~r.hasArguments
  IN /\ plan.route \in {"none", "local_mcp", "chat_only"}
     /\ pc \in {"retry_check", "summary_check", "writer", "evaluator", "output", "ended"} =>
          Routed(response)
     /\ pipe.drafts # <<>> => Routed(pipe.drafted)

\* a completed chat_only request
C13_Witness ==
  /\ pc = "ended"
  /\ response.route = "chat_only"
  /\ response.qualityCheck.present

\* the last request sent to the tool host found no connection
HostRejected ==
  \/ upstream # <<>> /\ upstream[Len(upstream)].status = 0
  \/ calls # <<>> /\ calls[Len(calls)].rejected

\* C14: a tool-host failure (a failed status or a failed connection on
\* initialize, tools/list or tools/call) is turned into an agent response:
\* the request does not fail, and the stream ends with `final` and
\* `done {ok: true}` and no `error` frame.
C14_HostFailureRecovered ==
  /\ HostRejected => pc \notin {"catch", "failed"}
  /\ (pc = "ended" /\ \E i \in 1..Len(upstream) : upstream[i].status # 200) =>
       /\ CountFrames("error") = 0
       /\ CountFrames("final") = 1
       /\ \E i \in 1..Len(frames) : frames[i] = Frame("done", TRUE)
       /\ response.answer.n > 0

C16_LegacyHostTwoPosts ==
  ( /\ Returned
    /\ plan.route = "local_mcp"
    /\ Initializes # <<>>
    /\ \A i \in 1..Len(Initializes) : Initializes[i].status = 404 )
  => /\ Len(upstream) = 2
     /\ upstream[1].req = "initialize"
     /\ upstream[2].req = "legacy"
     /\ calls = <<>>
     /\ response.tool = NoTool
     /\ ~response.hasArguments

\* planning reached the tool host, which serves an empty tool list
EmptyCatalogue ==
  /\ manifestTools = <<>>
  /\ \E i \in 1..Len(upstream) :
       upstream[i].exec = 0 /\ upstream[i].req = "tools/list" /\ upstream[i].status = 200

\* C17: when planning reaches the tool host but obtains no tool, the
\* response has requiresInput = true, missing = execution_plan and mcpStatus
\* 200, and no tools/call request is sent.
C17_EmptyCatalogueAsksForPlan ==
  EmptyCatalogue =>
    /\ ~executionPlan.present
    /\ calls = <<>>
    /\ execs = <<>>
    /\ Returned
    /\ response.requiresInput
    /\ response.missing = "execution_plan"
    /\ response.mcpStatus = 200

\* a completed request against an empty catalogue
C17_Witness == pc = "ended" /\ EmptyCatalogue /\ CountFrames("final") = 1

\* C18: on the chat_only route no request at all is sent to the tool host,
\* and the response has action chat-only, route chat_only and mcpStatus 200.
C18_ChatOnlySendsNothing ==
  plan.route = "chat_only" =>
    /\ upstream = <<>>
    /\ calls = <<>>
    /\ \A i \in 1..Len(execs) : execs[i].kind = "chat"
    /\ pc \in {"writer", "evaluator", "output", "ended"} =>
         /\ response.action = "chat-only"
         /\ response.route = "chat_only"
         /\ response.mcpStatus = 200

\* a chat_only request that completed without the tool host
C18_Witness ==
  /\ pc = "ended"
  /\ plan.route = "chat_only"
  /\ llm.chat = 1
  /\ CountFrames("delta") >= 2

\* C19: once the client has closed the SSE connection and the request task
\* has reached its next emit, no further LLM or tool-host call is started
\* and no further frame is written.
C19_AbortAfterClose ==
  [][ (~socket.open /\ Len(frames) > socket.framesAtClose) =>
        /\ llm' = llm
        /\ calls' = calls
        /\ upstream' = upstream
        /\ frames' = frames ]_vars

\* C20: the delta frames carry the text in order in chunks of at most 48
\* characters, all but the last of exactly 48; their concatenation is the
\* answer of the `final` frame; an empty answer produces no delta frame.
C20_DeltaChunks ==
  /\ \A i \in 1..Len(Deltas) :
       /\ Deltas[i].len >= 1
       /\ Deltas[i].len <= CHUNK_SIZE
       /\ i < Len(Deltas) => Deltas[i].len = CHUNK_SIZE
       /\ Deltas[i].start = (IF i = 1 THEN 0 ELSE Deltas[i - 1].start + Deltas[i - 1].len)
  /\ \A i \in 1..Len(Finals) :
       /\ Finals[i].len = response.answer.n
       /\ Finals[i].len = (IF Deltas = <<>> THEN 0
                           ELSE Deltas[Len(Deltas)].start + Deltas[Len(Deltas)].len)
       /\ Finals[i].len = 0 <=> Deltas = <<>>

\* a completed request whose answer went out as two full chunks and a
\* last chunk of one character
C20_Witness ==
  /\ pc = "ended"
  /\ Len(Deltas) = 3
  /\ Deltas[3].len = 1
  /\ Finals[1].len = 2 * CHUNK_SIZE + 1

\* ---------------------------------------------------------------------------
\* C21: with a bearer token configured, every HTTP request to the tool host
\* (initialize, the manifest GET, tools/list, tools/call and the legacy POST)
\* carries the Authorization header.
C21_EveryRequestAuthorized ==
  LOCAL_MCP_TOKEN # "" =>
    /\ \A i \in 1..Len(upstream) : "Authorization" \in upstream[i].headers
    /\ \A i \in 1..Len(calls) : "Authorization" \in calls[i].headers

\* ---------------------------------------------------------------------------
\* C22: argument sanitisation is idempotent: for every tool schema, seed
\* query and argument mapping, sanitizeToolArguments applied to its own
\* output (same tool and seed) returns the same arguments.
C22_SanitizeIdempotent ==
  (fn.op = "sanitizeToolArguments" /\ fn.done) => fn.twice = fn.once

\* ---------------------------------------------------------------------------
\* C23: path normalisation is idempotent: for every string or array input,
\* normalizePathInput of the result equals the result, and the result
\* contains no empty, untrimmed or duplicate entries.
C23_NormalizePathIdempotent ==
  (fn.op = "normalizePathInput" /\ fn.done) =>
    /\ fn.twice = fn.once
    /\ \A i \in 1..Len(fn.once) :
         /\ fn.once[i] # <<>>
         /\ Trim(fn.once[i]) = fn.once[i]
         /\ \A j \in 1..Len(fn.once) : fn.once[j] = fn.once[i] => j = i

\* ---------------------------------------------------------------------------
\* C24: tool-spec merge is associative: for all tool lists A, B, C,
\* mergeToolSpecs(mergeToolSpecs(A, B), C) equals
\* mergeToolSpecs(A, mergeToolSpecs(B, C)), with the later list winning per
\* top-level field and per inputSchema property name.
NamedOnce(l) ==
  \A i, j \in 1..Len(l) : (l[i].name = l[j].name /\ l[i].name # "") => i = j

\* the value of the last descriptor of s that has the field
LastDefined(s, Field(_)) ==
  LET has == {i \in 1..Len(s) : Field(s[i]) # "absent"}
  IN IF has = {} THEN "absent" ELSE Field(s[MaxOf(has)])

Description(t) == t.description
Properties(t) == t.properties
Required(t) == t.required

C24_MergeAssociative ==
  (fn.op = "mergeToolSpecs" /\ fn.done) =>
    /\ fn.once = fn.twice
    /\ (NamedOnce(fn.input.a) /\ NamedOnce(fn.input.b) /\ NamedOnce(fn.input.c)) =>
         \A i \in 1..Len(fn.once) :
           LET sources == SelectSeq(fn.input.a \o fn.input.b \o fn.input.c,
                                    LAMBDA t : t.name = fn.once[i].name)
           IN fn.once[i].name # "" =>
                /\ fn.once[i].description = LastDefined(sources, Description)
                /\ fn.once[i].properties = LastDefined(sources, Properties)
                /\ fn.once[i].required = LastDefined(sources, Required)

\* three lists that each describe the tool "t" differently have been merged
C24_Witness ==
  /\ fn.op = "mergeToolSpecs" /\ fn.done
  /\ fn.input.a = <<ToolSpec("t", "d1", TRUE, "p1", "absent")>>
  /\ fn.input.b = <<ToolSpec("t", "absent", TRUE, "p2", "r2")>>
  /\ fn.input.c = <<ToolSpec("t", "d3", FALSE, "absent", "absent"),
                    ToolSpec("u", "d1", TRUE, "absent", "r1")>>
  /\ fn.once = <<ToolSpec("t", "d3", TRUE, "p2", "r2"), ToolSpec("u", "d1", TRUE, "absent", "r1")>>

\* ---------------------------------------------------------------------------
\* C25: in every MCP-agent run the upstream requests occur in the order
\* initialize, manifest GET, tools/list, tools/call; no tools/call is sent
\* unless initialize returned a JSON-RPC 2.0 envelope with status < 400 and a
\* tool list was obtained; a failed manifest GET alone never fails the run;
\* and after a failed initialize (other than 404) no further upstream request
\* is made.
CallsOf(e) == SelectSeq(calls, LAMBDA c : c.exec = e)
RequestsOf(e) == [i \in 1..Len(UpstreamOf(e)) |-> UpstreamOf(e)[i].req]
IsPrefix(s, t) == Len(s) <= Len(t) /\ \A i \in 1..Len(s) : s[i] = t[i]

RunOrder(e) ==
  LET U == UpstreamOf(e)
  IN /\ \/ IsPrefix(RequestsOf(e), <<"initialize", "manifest", "tools/list">>)
        \/ RequestsOf(e) = <<"initialize", "legacy">>
     /\ Len(U) >= 2 /\ U[2].req = "manifest" => U[1].status = 200
     /\ Len(U) >= 1 /\ U[1].status \in {0, 500} => Len(U) = 1 /\ CallsOf(e) = <<>>
     /\ CallsOf(e) # <<>> =>
          /\ Len(U) = 3
          /\ U[1].status = 200
          /\ U[2].status = 200 \/ U[3].status = 200

C30_ToolErrorIsFailure ==
  ( /\ pc = "mcp_return"
    /\ ~run.callResult.ok
    /\ CallsOf(Len(execs)) # <<>> )
  => /\ CallsOf(Len(execs))[Len(CallsOf(Len(execs)))].req = "primary"
     /\ run.out.answer = Text(HostTextLen, run.callResult.pathIssue)
     /\ run.out.mcpStatus >= 400
     /\ ~shouldHandoffToSummaryAgent(proxyResponse(run.out), "local_mcp")

\* ---------------------------------------------------------------------------
\* C26: in a github_pr workflow the create_pr tool is invoked only when the
\* most recently parsed sync_status payload has ready_for_pr === true, the
\* pull tool only when it has ready_for_pull === true, and the sync refresh
\* step only when the pull step executed.
C26_StepsGatedBySyncStatus ==
  (run.kind = "step" /\ executionPlan.workflow.type = "github_pr") =>
    LET step == executionPlan.workflow.steps[wf.idx]
    IN /\ step.id = "create_pr_if_ready" =>
            wf.lastSyncStatus.parsed /\ wf.lastSyncStatus.ready_for_pr
       /\ step.id = "pull_if_needed" =>
            wf.lastSyncStatus.parsed /\ wf.lastSyncStatus.ready_for_pull
       /\ step.id = "sync_refresh_after_pull" =>
            \E i \in 1..Len(workflowState.steps) :
               workflowState.steps[i].id = "pull_if_needed" /\ workflowState.steps[i].executed

\* ---------------------------------------------------------------------------
\* C27: the workflow runner runs after the initial MCP-agent call if and only
\* if the execution plan carries a workflow.steps.v1 workflow: whenever the
\* plan carries such a workflow with at least one step, the steps are
\* evaluated and a workflow state is reported, and when it carries none the
\* runner does not run.
CarriesWorkflow ==
  /\ executionPlan.workflow.schema = "workflow.steps.v1"
  /\ Len(executionPlan.workflow.steps) > 0

InitialReturns == pc = "mcp_return" /\ run.kind = "initial" /\ pc' # pc

WorkflowEnds == pc = "wf_next" /\ pc' = "retry_check"

C27_WorkflowRunsIffPlanned ==
  [][/\ InitialReturns =>
          /\ (pc' = "wf_next" /\ workflowState'.ran) <=> CarriesWorkflow
          /\ pc' # "wf_next" => ~workflowState'.ran /\ pc' = "retry_check"
     /\ WorkflowEnds =>
          /\ workflowState'.ran
          /\ Len(workflowState'.steps) = Len(executionPlan.workflow.steps)]_vars

\* C27 (amended): the runner runs after the initial MCP-agent call if and
\* only if the plan carries a workflow.steps.v1 workflow with at least one
\* step and the initial response has mcpStatus < 400; then every step is
\* evaluated and recorded in the reported workflow state, otherwise no
\* workflow state is reported.
C27_WorkflowRunsIffPlannedAndSucceeded ==
  [][/\ InitialReturns =>
          /\ (pc' = "wf_next" /\ workflowState'.ran)
                <=> (CarriesWorkflow /\ response'.mcpStatus < 400)
          /\ pc' # "wf_next" => ~workflowState'.ran /\ pc' = "retry_check"
     /\ WorkflowEnds =>
          /\ workflowState'.ran
          /\ Len(workflowState'.steps) = Len(executionPlan.workflow.steps)]_vars

\* the plan carried a workflow, the initial call failed, the runner did not run
C27_Witness ==
  /\ pc = "retry_check"
  /\ CarriesWorkflow
  /\ response.mcpStatus >= 400
  /\ ~workflowState.ran
  /\ Len(execs) = 1

\* ---------------------------------------------------------------------------
\* C28: when the path-issue retry fires after a workflow has run, the retry
\* re-executes only the last executed workflow step; it neither replays the
\* whole workflow nor re-runs an earlier step or the initial tool.
ExecutedSteps == SelectSeq(workflowState.steps, LAMBDA st : st.executed)

C28_RetryReexecutesLastStep ==
  \A i \in 1..Len(execs) :
    (execs[i].kind = "retry" /\ workflowState.ran /\ ExecutedSteps # <<>>) =>
      /\ execs[i].tool = ExecutedSteps[Len(ExecutedSteps)].tool
      /\ \A j \in (i + 1)..Len(execs) : execs[j].kind # "step"

\* ---------------------------------------------------------------------------
\* C29: during a workflow the shared sync payload changes only after a step
\* that succeeded (mcpStatus < 400) and only to the parsed output of a
\* sync_status call; a failed step or the result of another tool leaves it
\* unchanged.
C29_SyncPayloadFromSyncStatus ==
  [][(wf.idx >= 1 /\ wf'.syncPayload # wf.syncPayload) =>
       /\ response'.mcpStatus < 400
       /\ response'.tool = "sync_status"
       /\ wf'.syncPayload = response'.sync]_vars

\* ---------------------------------------------------------------------------
\* C31: when the plan of an MCP-agent run (the execution plan, a workflow step
\* plan or a retry plan) names a tool that is absent from the non-empty tool
\* list discovered in that run, the run falls back to the heuristic best tool
\* and still sends a tools/call.
PlanToolAbsent ==
  /\ run.plan.tool # NoTool
  /\ run.tools # <<>>
  /\ findToolByName(run.tools, run.plan.tool) = NoTool

C31_AbsentToolFallsBack ==
  (pc = "mcp_return" /\ PlanToolAbsent)
    => /\ run.selected = chooseBestTool(run.tools, routedPrompt)
       /\ CallsOf(Len(execs)) # <<>>

\* ---------------------------------------------------------------------------
\* C32: within one MCP-agent run the search retry is sent at most once, and
\* only when the selected tool is search-like and the primary result's
\* structuredContent.hits is present and empty; the retry's result and
\* arguments replace the original ones if and only if the retry call
\* succeeded (status < 400 and no error), otherwise the original result and
\* arguments are kept.
SearchRetries(e) == SelectSeq(CallsOf(e), LAMBDA c : c.req = "search-retry")

C32_SearchRetryOnce ==
  [][(calls' # calls /\ calls'[Len(calls')].req = "search-retry") =>
       LET retry == calls'[Len(calls')]
       IN /\ retry.exec = Len(execs)
          /\ SearchRetries(Len(execs)) = <<>>
          /\ retry.tool = run.selected
          /\ isSearchLikeTool(run.selected)
          /\ run.callResult.ok /\ run.callResult.hits = "empty"
          /\ IF retry.ok
               THEN /\ run'.callResult.ok /\ run'.callResult.hits # "none"
                    /\ run'.args = retry.args
               ELSE /\ run'.callResult = run.callResult
                    /\ run'.args = run.args]_vars

\* a search retry failed and the request completed with the original result
C32_Witness ==
  /\ pc = "ended"
  /\ \E i \in 1..Len(calls) :
       /\ calls[i].req = "search-retry" /\ ~calls[i].ok
       /\ \E j \in 1..(i - 1) : calls[j].req = "search-discovery" /\ calls[j].exec = calls[i].exec

\* ---------------------------------------------------------------------------
\* C33: the discovery call of the search retry (list_docs or the discovery
\* tool) is sent with arguments seeded from the configured default path
\* candidates and with extensions ['.md', '.txt'], and exactly one such
\* discovery call precedes the second search call.
SearchDiscoveries(e) == SelectSeq(CallsOf(e), LAMBDA c : c.req = "search-discovery")

C33_SearchDiscoverySeeded ==
  /\ \A i \in 1..Len(calls) :
       calls[i].req = "search-discovery" =>
         /\ calls[i].args.extensions = <<".md", ".txt">>
         /\ "paths" \in ToolProps(calls[i].tool) => calls[i].args.paths = getRetryPathCandidates
  /\ \A i \in 1..Len(calls) :
       calls[i].req = "search-retry" =>
         /\ Len(SearchDiscoveries(calls[i].exec)) = 1
         /\ \E j \in 1..(i - 1) :
              calls[j].req = "search-discovery" /\ calls[j].exec = calls[i].exec

\* ---------------------------------------------------------------------------
\* C34: when the summary chain applies (summary intent, a summary tool other
\* than the selected tool), the summary tool is called at most once in the run
\* and only with a non-empty paths list and an output_path; the run's response
\* reports the summary tool, its arguments and its result if and only if that
\* call succeeded, otherwise the original tool's result is returned.
SummaryChains(e) == SelectSeq(CallsOf(e), LAMBDA c : c.req = "summary-chain")

HasDiscoveryHint(t) == \E h \in Range(hintPriority) : NameIncludes(t, h)
EligibleDiscovery(t) == HasDiscoveryHint(t) /\ "paths" \notin ToolRequired(t)

C35_FallbackDiscoveryTool ==
  [][( /\ calls' # calls
       /\ calls'[Len(calls')].req = "discovery"
       /\ findToolByName(run.tools, run.plan.discovery.tool) = NoTool ) =>
       LET called == calls'[Len(calls')].tool
       IN /\ HasDiscoveryHint(called)
          /\ "paths" \notin ToolRequired(called)
          /\ called = run.selected =>
               ~\E t \in Range(run.tools) : t # run.selected /\ EligibleDiscovery(t)]_vars

\* ---------------------------------------------------------------------------
\* C36: for every query containing, without regard to case, one of the
\* keywords pr, pull request, github, sync, 깃허브, commit, push or deploy,
\* when the tool list includes both sync_status and create_pr, planning returns
\* a workflow.steps.v1 plan whose initial tool is sync_status and makes no
\* tool-selector call; for a query without any of these keywords no workflow
\* is planned.
Contains(s, kw) == \E i \in 1..(Len(s) - Len(kw) + 1) : SubSeq(s, i, i + Len(kw) - 1) = kw
Lowered(s) == [i \in 1..Len(s) |-> LowerOf(s[i])]

ClaimedKeywords ==
  { <<"p", "r">>,
    <<"p", "u", "l", "l", " ", "r", "e", "q", "u", "e", "s", "t">>,
    <<"g", "i", "t", "h", "u", "b">>,
    <<"s", "y", "n", "c">>,
    <<"U+AE43", "U+D5C8", "U+BE0C">>,
    <<"c", "o", "m", "m", "i", "t">>,
    <<"p", "u", "s", "h">>,
    <<"d", "e", "p", "l", "o", "y">> }

\* the keywords in the amended statement: the Korean words for sync, commit,
\* push and deploy in place of the English commit, push, deploy
PlannedKeywords ==
  (ClaimedKeywords \ { <<"c", "o", "m", "m", "i", "t">>, <<"p", "u", "s", "h">>,
                       <<"d", "e", "p", "l", "o", "y">> })
    \cup { <<"U+B3D9", "U+AE30", "U+D654">>, <<"U+CEE4", "U+BC0B">>,
           <<"U+D478", "U+C2DC">>, <<"U+BC30", "U+D3EC">> }

Planned == fn.op = "planExecutionFromManifest" /\ fn.done
HasBothTools == {"sync_status", "create_pr"} \subseteq Range(fn.input.tools)

WorkflowPlannedFor(keywords) ==
  Planned =>
    LET named == \E kw \in keywords : Contains(Lowered(fn.input.query), kw)
    IN /\ (named /\ HasBothTools) =>
            /\ fn.once.workflow.schema = "workflow.steps.v1"
            /\ fn.once.tool = "sync_status"
            /\ fn.once.selectorCalls = 0
       /\ ~named => fn.once.workflow = NoWorkflow

C36_KeywordsPlanWorkflow == WorkflowPlannedFor(ClaimedKeywords)

\* C36, amended: the keywords are pr, pull request, github, sync, 깃허브,
\* 동기화, 커밋, 푸시 and 배포.
C36_CodeKeywordsPlanWorkflow == WorkflowPlannedFor(PlannedKeywords)

\* a query with the keyword in capitals was planned as a workflow
C36_Witness ==
  /\ Planned
  /\ Contains(fn.input.query, <<"P", "R">>)
  /\ HasBothTools
  /\ fn.once.workflow.schema = "workflow.steps.v1"
  /\ Len(fn.once.workflow.steps) = 3

\* ---------------------------------------------------------------------------
\* C37: the tool list the agent plans and executes against (the merge of the
\* manifest's tools with tools/list, or tools/list alone) contains no
\* descriptor without a non-empty string name: unnamed entries from either
\* source are dropped.
C37_NoUnnamedTool ==
  (fn.op = "collectMCPToolContext" /\ fn.done /\ fn.once.ok) =>
    \A i \in 1..Len(fn.once.tools) : fn.once.tools[i].name # ""

\* ---------------------------------------------------------------------------
\* C38: one writer/evaluator polishing phase terminates after at most two LLM
\* calls in total.
PolishingCalls == llm.writer + llm.evaluator

C38_PolishingTwoCalls == PolishingCalls <= 2

\* C38, amended: the polishing phase terminates after at most two
\* writer/evaluator passes, which is at most four LLM calls in total: a
\* phase that returns has made two calls or four, and after the fourth call
\* neither agent is invoked again.
C38_PolishingFourCalls ==
  /\ PolishingCalls <= 4
  /\ PolishingCalls = 4 => pc \notin {"writer", "evaluator"}
  /\ (pc \in {"output", "ended"} /\ PolishingCalls > 0) => PolishingCalls \in {2, 4}

\* a polishing phase returned after its fourth LLM call
C38_Witness == pc = "output" /\ PolishingCalls = 4 /\ response.qualityCheck.present

\* ---------------------------------------------------------------------------
\* C39: for a github_pr workflow, workflowState.proceeded is true only if the
\* create_pr step's tool call completed successfully (mcpStatus < 400): a
\* create_pr call that failed never yields proceeded = true, and a step whose
\* call failed does not satisfy step_executed for later steps.
Succeeded(st) == st.executed /\ st.status < 400

C39_ProceededOnlyAfterSuccess ==
  (workflowState.ran /\ workflowState.type = "github_pr") =>
    LET done == workflowState.steps
        planned == executionPlan.workflow.steps
    IN /\ workflowState.proceeded =>
            \E i \in 1..Len(done) : IdIncludesCreatePr(done[i].id) /\ Succeeded(done[i])
       /\ \A i \in 1..Len(done) :
            (done[i].executed /\ planned[i].when.type = "step_executed") =>
              \E j \in 1..(i - 1) : done[j].id = planned[i].when.stepId /\ Succeeded(done[j])

\* ---------------------------------------------------------------------------
\* C40: every orchestration run terminates after a bounded number of steps:
\* at most 7 LLM calls (at most 2 by the plan agent, 1 summary, 2 writer, 2
\* evaluator), at most 3 + |workflow.steps| MCP-agent executions (initial, one
\* per workflow step, one retry discovery, one retry), and at most 6
\* tools/call requests per MCP-agent execution; there is no unbounded loop.
LlmCalls == llm.plan + llm.selector + llm.chat + llm.summary + llm.writer + llm.evaluator
McpExecs == SelectSeq(execs, LAMBDA e : e.kind # "chat")

RunBounds ==
  /\ LlmCalls <= 7
  /\ llm.plan + llm.selector <= 2
  /\ llm.summary <= 1
  /\ llm.writer <= 2
  /\ llm.evaluator <= 2
  /\ Len(McpExecs) <= 3 + Len(executionPlan.workflow.steps)
  /\ \A e \in 1..Len(execs) : Len(CallsOf(e)) <= 6

\* the position of the request task within one execution and within the
\* stages that follow the executions
Stage(p) ==
  CASE p = "plan_route" -> 0 [] p = "plan_context" -> 1 [] p = "plan_selector" -> 2
    [] p = "exec_chat" -> 3 [] p = "mcp_initialize" -> 10 [] p = "mcp_legacy" -> 11
    [] p = "mcp_tools" -> 12 [] p = "mcp_discovery" -> 13 [] p = "mcp_primary" -> 14
    [] p = "mcp_search_discovery" -> 15 [] p = "mcp_search_retry" -> 16
    [] p = "mcp_summary_discovery" -> 17 [] p = "mcp_summary_chain" -> 18
    [] p = "mcp_return" -> 19 [] p = "wf_next" -> 20 [] p = "retry_check" -> 21
    [] p = "summary_check" -> 22 [] p = "writer" -> 23 [] p = "evaluator" -> 24
    [] p = "output" -> 25 [] p = "catch" -> 26 [] OTHER -> 27

\* grows with every step of the run and is bounded: the executions started,
\* the workflow steps passed, the writer and evaluator calls made, and the stage
Progress ==
  1000 * Len(execs) + 100 * (wf.idx + llm.writer + llm.evaluator) + Stage(pc)

C40_BoundedRun ==
  [][/\ RunBounds'
     /\ Progress' > Progress
     /\ Progress' <= 1000 * (3 + Len(executionPlan'.workflow.steps)) + 100 * 8 + 27]_vars

\* a completed request that made seven LLM calls and three executions
C40_Witness ==
  /\ pc = "ended"
  /\ LlmCalls = 7
  /\ Len(McpExecs) = 3 + Len(executionPlan.workflow.steps)
====
